---- MODULE Spec2Model ----
(***************************************************************************)
(* BC-PFS: blockchain-based proportional-fair scheduling.                  *)
(*                                                                         *)
(* The four contracts (RegistrationContract, StatusReportingContract,      *)
(* SchedulingContract, SettlementContract) as one state machine.  Every    *)
(* public function is one atomic action (a transaction); a transaction     *)
(* that reverts leaves the storage as it was and only yields a receipt.    *)
(*                                                                         *)
(* Solidity's uint is a 256-bit unsigned integer.  TLC's integers are 32   *)
(* bits wide, so a uint is modelled as an arbitrary-precision natural: the *)
(* sequence of its base-BASE digits, least significant first, without      *)
(* leading zero digits (zero is the empty sequence).  No value of the      *)
(* model comes near 2^256, so the checked arithmetic of Solidity 0.8       *)
(* never reverts here.                                                     *)
(***************************************************************************)
EXTENDS Integers, Sequences, FiniteSets, TLC

\* ------------------------------------------------------------------------
\* uint arithmetic
\* ------------------------------------------------------------------------

\* radix of the digit sequences that represent a uint
BASE == 10 * 10 * 10 * 10

RECURSIVE ToUint(_)
\* the uint of a TLC integer n >= 0
ToUint(n) ==
    IF n = 0 THEN <<>> ELSE <<n % BASE>> \o ToUint(n \div BASE)

RECURSIVE Trim(_)
\* drop leading zero digits
Trim(a) ==
    IF a = <<>> THEN a
    ELSE IF a[Len(a)] = 0 THEN Trim(SubSeq(a, 1, Len(a) - 1))
    ELSE a

Digit(a, i) == IF i <= Len(a) THEN a[i] ELSE 0

Rest(a) == IF a = <<>> THEN <<>> ELSE Tail(a)

RECURSIVE AddCarry(_, _, _)
AddCarry(a, b, c) ==
    IF a = <<>> /\ b = <<>> THEN ToUint(c)
    ELSE LET s == Digit(a, 1) + Digit(b, 1) + c
         IN  <<s % BASE>> \o AddCarry(Rest(a), Rest(b), s \div BASE)

\* a + b
UAdd(a, b) == AddCarry(a, b, 0)

RECURSIVE MulDigitCarry(_, _, _)
MulDigitCarry(a, m, c) ==
    IF a = <<>> THEN ToUint(c)
    ELSE LET s == a[1] * m + c
         IN  <<s % BASE>> \o MulDigitCarry(Tail(a), m, s \div BASE)

\* a * m for one digit m
UMulDigit(a, m) == IF m = 0 THEN <<>> ELSE MulDigitCarry(a, m, 0)

\* a * BASE
ShiftUp(a) == IF a = <<>> THEN <<>> ELSE <<0>> \o a

RECURSIVE UMul(_, _)
\* a * b
UMul(a, b) ==
    IF b = <<>> THEN <<>>
    ELSE UAdd(UMulDigit(a, b[1]), ShiftUp(UMul(a, Tail(b))))

RECURSIVE LtFrom(_, _, _)
\* a < b for a, b of equal length, comparing digits i, i-1, ..., 1
LtFrom(a, b, i) ==
    IF i = 0 THEN FALSE
    ELSE IF a[i] # b[i] THEN a[i] < b[i]
    ELSE LtFrom(a, b, i - 1)

\* a < b
ULt(a, b) ==
    IF Len(a) # Len(b) THEN Len(a) < Len(b) ELSE LtFrom(a, b, Len(a))

\* a <= b
ULe(a, b) == ~ULt(b, a)

\* a > b
UGt(a, b) == ULt(b, a)

RECURSIVE SubBorrow(_, _, _)
SubBorrow(a, b, c) ==
    IF a = <<>> THEN <<>>
    ELSE LET d == a[1] - Digit(b, 1) - c
         IN  IF d < 0
             THEN <<d + BASE>> \o SubBorrow(Tail(a), Rest(b), 1)
             ELSE <<d>> \o SubBorrow(Tail(a), Rest(b), 0)

\* a - b, for b <= a
USub(a, b) == Trim(SubBorrow(a, b, 0))

RECURSIVE QuotDigit(_, _, _, _)
\* the largest digit d in lo..hi with d * b <= r (lo qualifies)
QuotDigit(r, b, lo, hi) ==
    IF lo = hi THEN lo
    ELSE LET mid == (lo + hi + 1) \div 2
         IN  IF ULe(UMulDigit(b, mid), r)
             THEN QuotDigit(r, b, mid, hi)
             ELSE QuotDigit(r, b, lo, mid - 1)

RECURSIVE UDivMod(_, _)
\* quotient and remainder of a by b # 0 (long division, leading digit first)
UDivMod(a, b) ==
    IF a = <<>> THEN [q |-> <<>>, r |-> <<>>]
    ELSE LET up == UDivMod(Tail(a), b)
             r  == Trim(<<a[1]>> \o up.r)
             d  == IF ULt(r, b) THEN 0 ELSE QuotDigit(r, b, 1, BASE - 1)
         IN  [q |-> Trim(<<d>> \o up.q),
              r |-> IF d = 0 THEN r ELSE USub(r, UMulDigit(b, d))]

\* a / b (Solidity's integer division)
UDiv(a, b) == UDivMod(a, b).q

\* a % b
UMod(a, b) == UDivMod(a, b).r

ZERO == <<>>

\* ------------------------------------------------------------------------
\* addresses and inputs
\* ------------------------------------------------------------------------

\* address(0): the default of every address slot, "no user"
ZeroAddress == "0x0"

\* the accounts that register as users / as operators
UserPool == {"u1", "u2"}
OpPool == {"o1", "o2"}
Address == UserPool \cup OpPool

\* the deployed contracts a reference slot can point to
RegistrationAddr == "RegistrationContract"
StatusReportingAddr == "StatusReportingContract"
SchedulingAddr == "SchedulingContract"

\* bytes: sequences of 0..255
RECURSIVE BytesOf(_, _)
\* the big-endian encoding of n (a TLC integer) in len bytes
BytesOf(n, len) ==
    IF len = 0 THEN <<>> ELSE BytesOf(n \div 256, len - 1) \o <<n % 256>>

\* ------------------------------------------------------------------------
\* StatusReportingContract: pure functions
\* ------------------------------------------------------------------------

\* validCSI: a non-empty report
validCSI(csi) == Len(csi) > 0

RECURSIVE SnrLoop(_, _, _)
\* the loop of rateEstimation: snrScaled = snrScaled * 256 + csi[i], i = 0..7
\* (i counts from 1 here)
SnrLoop(csi, i, snrScaled) ==
    IF i > 8 THEN snrScaled
    ELSE SnrLoop(csi, i + 1, UAdd(UMul(snrScaled, ToUint(256)), ToUint(csi[i])))

\* the minimum value that replaces snrScaled = 0
MinSnrScaled == 1000000

\* uint bandwidth = 1000
RateBandwidth == 1000

\* uint log2 = 693, log(2) * 1000
Log2Scaled == 693

\* the mutant of EstimateFromSnr that truncates instead of rounding
EstimateFromSnrTruncating(snrScaled) ==
    LET snr   == IF snrScaled = ZERO THEN ToUint(MinSnrScaled) ELSE snrScaled
        denom == UMul(ToUint(Log2Scaled), ToUint(1000))
        numer == UMul(ToUint(RateBandwidth), snr)
    IN  UDiv(numer, denom)

\* rateEstimation after the byte loop: the clamp and the rounded division
EstimateFromSnr(snrScaled) ==
    LET snr   == IF snrScaled = ZERO THEN ToUint(MinSnrScaled) ELSE snrScaled
        denom == UMul(ToUint(Log2Scaled), ToUint(1000))
        numer == UMul(ToUint(RateBandwidth), snr)
    IN  UDiv(UAdd(numer, UDiv(denom, ToUint(2))), denom)

\* require(csi.length >= 8) of rateEstimation
EstimationAccepts(csi) == Len(csi) >= 8

\* the mutant of rateEstimation without the length check: the bytes that are
\* missing read as 0
rateEstimationUnchecked(csi) ==
    [ok   |-> TRUE,
     rate |-> EstimateFromSnr(
                  SnrLoop(csi \o [i \in 1..8 |-> 0], 1, ZERO))]

\* function rateEstimation(bytes memory csi): reverts (ok = FALSE) or returns
\* the rate
rateEstimation(csi) ==
    IF EstimationAccepts(csi)
    THEN [ok |-> TRUE, rate |-> EstimateFromSnr(SnrLoop(csi, 1, ZERO))]
    ELSE [ok |-> FALSE, rate |-> ZERO]

\* ------------------------------------------------------------------------
\* state
\* ------------------------------------------------------------------------

VARIABLES
    \* RegistrationContract
    registry,                \* address -> Info(id, isOperator)
    nextOpId,
    nextUserId,
    allUsers,                \* address[] in registration order
    allOperators,
    \* StatusReportingContract
    operatorUserRates,       \* user -> operator -> uint[]
    latestOperatorUserRate,  \* user -> operator -> uint
    \* SchedulingContract
    selectedUser,            \* operator -> address
    throughput,              \* user -> uint, scaled by PRECISION
    throughputRemainder,     \* user -> uint
    schedulingMatrix,        \* user -> operator -> bool
    allocatedRate,           \* user -> operator -> uint
    serviceDuration,         \* user -> operator -> uint
    statusReportingContract, \* SchedulingContract.statusReportingContract
    registrationContract,    \* SchedulingContract.registrationContract
    \* SettlementContract
    schedulingContract,      \* SettlementContract.schedulingContract
    settlementRegistration,  \* SettlementContract.registrationContract
    operatorRates,           \* operator -> uint
    \* the receipt of the last transaction: function, status, arguments, logs
    receipt,
    \* the number of updateScheduling transactions applied (the driver's round)
    round,
    \* the throughput update applied to one user with a fixed allocation
    ewX, ewK, ewThroughput, ewRemainder,
    \* the exact average of that user after ewK rounds, ewExactNum / ewExactDen
    ewExactNum, ewExactDen,
    \* one call of rateEstimation
    csiInput, estimation,
    \* the driver script: its position, the round of its loop and the failures
    \* of its calls so far
    drvPc, drvRound, drvFaults,
    \* the submitReport calls begun by the driver that have not reached the node
    inFlight,
    \* the node: pending transactions, the transactions of the block being
    \* mined, the executed transactions and the number of mined blocks
    mempool, miningBlock, chain, blockNumber,
    \* the progress file written by the driver's ProgressMonitor, and whether
    \* the driver has printed that all rounds of scheduling completed
    progressMonitor, completedLog

registrationVars == <<registry, nextOpId, nextUserId, allUsers, allOperators>>
reportingVars == <<operatorUserRates, latestOperatorUserRate>>
selectionVars == <<selectedUser, schedulingMatrix, allocatedRate, serviceDuration>>
schedulingVars == <<selectedUser, throughput, throughputRemainder,
                    schedulingMatrix, allocatedRate, serviceDuration>>
schedulingRefs == <<statusReportingContract, registrationContract>>
settlementVars == <<schedulingContract, settlementRegistration, operatorRates>>
ewmaVars == <<ewX, ewK, ewThroughput, ewRemainder, ewExactNum, ewExactDen>>
estimationVars == <<csiInput, estimation>>
monitorVars == <<progressMonitor, completedLog>>
driverVars == <<drvPc, drvRound, drvFaults, inFlight, mempool, miningBlock, chain,
                blockNumber, monitorVars>>
vars == <<registrationVars, reportingVars, schedulingVars, schedulingRefs,
          settlementVars, receipt, round, ewmaVars, estimationVars, driverVars>>

\* a transaction that reverted: no storage change, no logs
Reverted(fn, args) == [fn |-> fn, ok |-> FALSE, args |-> args, logs |-> <<>>]

\* a transaction that succeeded with the given logs
Succeeded(fn, args, logs) == [fn |-> fn, ok |-> TRUE, args |-> args, logs |-> logs]

\* ------------------------------------------------------------------------
\* RegistrationContract
\* ------------------------------------------------------------------------

\* the mutant of validProof that asks five bytes of everybody
validProofFiveBytes(proof, isOperator) == Len(proof) >= 5

validProof(proof, isOperator) ==
    IF isOperator THEN Len(proof) >= 10 ELSE Len(proof) >= 5

isRegistered(user) == registry[user].id # 0

getAllUsers == allUsers

getAllOperators == allOperators

\* the mutant of Register that puts the new address at the head of its list
RegisterAtHead(user, proof, isOperator) ==
    /\ IF validProof(proof, isOperator) /\ registry[user].id = 0
       THEN /\ registry' =
                 [registry EXCEPT ![user] =
                     [id |-> IF isOperator THEN nextOpId ELSE nextUserId,
                      isOperator |-> isOperator]]
            /\ nextOpId' = IF isOperator THEN nextOpId + 1 ELSE nextOpId
            /\ nextUserId' = IF isOperator THEN nextUserId ELSE nextUserId + 1
            /\ allOperators' =
                 IF isOperator THEN <<user>> \o allOperators ELSE allOperators
            /\ allUsers' = IF isOperator THEN allUsers ELSE <<user>> \o allUsers
            /\ receipt' =
                 Succeeded("register", <<user, proof, isOperator>>,
                     <<[event |-> "RegistrationSuccess", user |-> user,
                        id |-> IF isOperator THEN nextOpId ELSE nextUserId,
                        isOperator |-> isOperator]>>)
       ELSE /\ UNCHANGED registrationVars
            /\ receipt' = Reverted("register", <<user, proof, isOperator>>)
    /\ UNCHANGED <<reportingVars, schedulingVars, schedulingRefs, settlementVars,
                   round, ewmaVars, estimationVars>>

\* function register(address user, bytes memory proof, bool isOperator)
Register(user, proof, isOperator) ==
    /\ IF validProof(proof, isOperator) /\ registry[user].id = 0
       THEN /\ registry' =
                 [registry EXCEPT ![user] =
                     [id |-> IF isOperator THEN nextOpId ELSE nextUserId,
                      isOperator |-> isOperator]]
            /\ nextOpId' = IF isOperator THEN nextOpId + 1 ELSE nextOpId
            /\ nextUserId' = IF isOperator THEN nextUserId ELSE nextUserId + 1
            /\ allOperators' =
                 IF isOperator THEN Append(allOperators, user) ELSE allOperators
            /\ allUsers' = IF isOperator THEN allUsers ELSE Append(allUsers, user)
            /\ receipt' =
                 Succeeded("register", <<user, proof, isOperator>>,
                     <<[event |-> "RegistrationSuccess", user |-> user,
                        id |-> IF isOperator THEN nextOpId ELSE nextUserId,
                        isOperator |-> isOperator]>>)
       ELSE /\ UNCHANGED registrationVars
            /\ receipt' = Reverted("register", <<user, proof, isOperator>>)
    /\ UNCHANGED <<reportingVars, schedulingVars, schedulingRefs, settlementVars,
                   round, ewmaVars, estimationVars>>

\* ------------------------------------------------------------------------
\* StatusReportingContract
\* ------------------------------------------------------------------------

\* the mutant of LedgerLatestRate that answers with the oldest entry of the
\* history of the pair
LedgerOldestRate(user, operator) ==
    IF operatorUserRates[user][operator] = <<>> THEN ZERO
    ELSE operatorUserRates[user][operator][1]

\* function getLatestRate(address user, address operator) of the ledger
LedgerLatestRate(user, operator) == latestOperatorUserRate[user][operator]

\* the mutant of SubmitReport that writes the latest rate only for the first
\* report of a pair
SubmitReportStale(user, operator, csi) ==
    /\ IF validCSI(csi) /\ rateEstimation(csi).ok
       THEN LET rate == rateEstimation(csi).rate
            IN  /\ operatorUserRates' =
                     [operatorUserRates EXCEPT ![user][operator] = Append(@, rate)]
                /\ latestOperatorUserRate' =
                     [latestOperatorUserRate EXCEPT ![user][operator] =
                         IF operatorUserRates[user][operator] = <<>> THEN rate ELSE @]
                /\ receipt' =
                     Succeeded("submitReport", <<user, operator, csi>>,
                         <<[event |-> "ReportSubmitted", user |-> user,
                            operator |-> operator, rate |-> rate]>>)
       ELSE /\ UNCHANGED reportingVars
            /\ receipt' = Reverted("submitReport", <<user, operator, csi>>)
    /\ UNCHANGED <<registrationVars, schedulingVars, schedulingRefs, settlementVars,
                   round, ewmaVars, estimationVars>>

\* the mutant of SubmitReport that keeps only the newest entry of a history
SubmitReportOverwrite(user, operator, csi) ==
    /\ IF validCSI(csi) /\ rateEstimation(csi).ok
       THEN LET rate == rateEstimation(csi).rate
            IN  /\ operatorUserRates' =
                     [operatorUserRates EXCEPT ![user][operator] = <<rate>>]
                /\ latestOperatorUserRate' =
                     [latestOperatorUserRate EXCEPT ![user][operator] = rate]
                /\ receipt' =
                     Succeeded("submitReport", <<user, operator, csi>>,
                         <<[event |-> "ReportSubmitted", user |-> user,
                            operator |-> operator, rate |-> rate]>>)
       ELSE /\ UNCHANGED reportingVars
            /\ receipt' = Reverted("submitReport", <<user, operator, csi>>)
    /\ UNCHANGED <<registrationVars, schedulingVars, schedulingRefs, settlementVars,
                   round, ewmaVars, estimationVars>>

\* the mutant of SubmitReport that keeps one latest rate per user, written for
\* every operator
SubmitReportShared(user, operator, csi) ==
    /\ IF validCSI(csi) /\ rateEstimation(csi).ok
       THEN LET rate == rateEstimation(csi).rate
            IN  /\ operatorUserRates' =
                     [operatorUserRates EXCEPT ![user][operator] = Append(@, rate)]
                /\ latestOperatorUserRate' =
                     [latestOperatorUserRate EXCEPT
                         ![user] = [o \in Address |-> rate]]
                /\ receipt' =
                     Succeeded("submitReport", <<user, operator, csi>>,
                         <<[event |-> "ReportSubmitted", user |-> user,
                            operator |-> operator, rate |-> rate]>>)
       ELSE /\ UNCHANGED reportingVars
            /\ receipt' = Reverted("submitReport", <<user, operator, csi>>)
    /\ UNCHANGED <<registrationVars, schedulingVars, schedulingRefs, settlementVars,
                   round, ewmaVars, estimationVars>>

\* the mutant of SubmitReport whose event carries the latest rate of before the
\* call
SubmitReportLogsPrevious(user, operator, csi) ==
    /\ IF validCSI(csi) /\ rateEstimation(csi).ok
       THEN LET rate == rateEstimation(csi).rate
            IN  /\ operatorUserRates' =
                     [operatorUserRates EXCEPT ![user][operator] = Append(@, rate)]
                /\ latestOperatorUserRate' =
                     [latestOperatorUserRate EXCEPT ![user][operator] = rate]
                /\ receipt' =
                     Succeeded("submitReport", <<user, operator, csi>>,
                         <<[event |-> "ReportSubmitted", user |-> user,
                            operator |-> operator,
                            rate |-> latestOperatorUserRate[user][operator]]>>)
       ELSE /\ UNCHANGED reportingVars
            /\ receipt' = Reverted("submitReport", <<user, operator, csi>>)
    /\ UNCHANGED <<registrationVars, schedulingVars, schedulingRefs, settlementVars,
                   round, ewmaVars, estimationVars>>

\* function submitReport(address user, address operator, bytes memory csi)
\* (the event's block.timestamp is not modelled)
SubmitReport(user, operator, csi) ==
    /\ IF validCSI(csi) /\ rateEstimation(csi).ok
       THEN LET rate == rateEstimation(csi).rate
            IN  /\ operatorUserRates' =
                     [operatorUserRates EXCEPT ![user][operator] = Append(@, rate)]
                /\ latestOperatorUserRate' =
                     [latestOperatorUserRate EXCEPT ![user][operator] = rate]
                /\ receipt' =
                     Succeeded("submitReport", <<user, operator, csi>>,
                         <<[event |-> "ReportSubmitted", user |-> user,
                            operator |-> operator, rate |-> rate]>>)
       ELSE /\ UNCHANGED reportingVars
            /\ receipt' = Reverted("submitReport", <<user, operator, csi>>)
    /\ UNCHANGED <<registrationVars, schedulingVars, schedulingRefs, settlementVars,
                   round, ewmaVars, estimationVars>>

\* ------------------------------------------------------------------------
\* SchedulingContract
\* ------------------------------------------------------------------------

\* uint public constant alpha = 10000
alpha == 10000

\* uint public constant PRECISION = 100000000
PRECISION == 100000000

\* the factor of the priority of a user with throughput > 0
PriorityScale == 1000000000

\* the factor of the priority of a user with throughput 0
ColdStartScale == 100000000

\* the outcomes of keccak256(abi.encodePacked(block.timestamp, op)) that are
\* drawn for the operators in one block
HashOutcomes ==
    {[o \in OpPool |-> IF o = "o1" THEN 16 ELSE 31],
     [o \in OpPool |-> IF o = "o1" THEN 31 ELSE 16]}

\* the priority of a user with the given latest rate and throughput
Priority(latestRate, tp) ==
    IF UGt(tp, ZERO)
    THEN UDiv(UMul(latestRate, ToUint(PriorityScale)), tp)
    ELSE UMul(latestRate, ToUint(ColdStartScale))

\* the state of the inner loop before the first user
NoBest == [selected |-> ZeroAddress, maxPriority |-> ZERO, bestLatestRate |-> ZERO]

\* the mutant of BetterThan that also replaces the best on equal priority
BetterOrEqual(priority, maxPriority) == ULe(maxPriority, priority)

\* if (priority > maxPriority)
BetterThan(priority, maxPriority) == UGt(priority, maxPriority)

RECURSIVE UserLoop(_, _, _, _)
\* for (uint n = 0; n < currentUsers.length; n++): the best user of operator op
UserLoop(op, currentUsers, n, best) ==
    IF n > Len(currentUsers) THEN best
    ELSE LET latestRate == LedgerLatestRate(currentUsers[n], op)
             priority   == Priority(latestRate, throughput[currentUsers[n]])
         IN  UserLoop(op, currentUsers, n + 1,
                 IF BetterThan(priority, best.maxPriority)
                 THEN [selected |-> currentUsers[n], maxPriority |-> priority,
                       bestLatestRate |-> latestRate]
                 ELSE best)

\* the mutant of ClearPrevious that leaves the previous selection marked
ClearNothing(S, op) == S

\* the mutant of ClearPrevious that unmarks the previous pair and keeps its
\* allocated rate
ClearMarkOnly(S, op) ==
    LET prev == S.selectedUser[op]
    IN  IF prev # ZeroAddress
        THEN [S EXCEPT !.schedulingMatrix[prev][op] = FALSE]
        ELSE S

\* "Clear previous scheduling" for operator op
ClearPrevious(S, op) ==
    LET prev == S.selectedUser[op]
    IN  IF prev # ZeroAddress
        THEN [S EXCEPT !.schedulingMatrix[prev][op] = FALSE,
                       !.allocatedRate[prev][op] = ZERO]
        ELSE S

\* the mutant of SelectFor that passes over the users another operator holds
SelectForSkippingTaken(S, op, currentUsers, hash) ==
    LET free(u) == \A o \in Address \ {op} : S.selectedUser[o] # u
        cleared == ClearPrevious(S, op)
        best    == UserLoop(op, SelectSeq(currentUsers, free), 1, NoBest)
        chosen  == [cleared EXCEPT !.selectedUser[op] = best.selected]
    IN  IF best.selected # ZeroAddress
        THEN [chosen EXCEPT
                 !.schedulingMatrix[best.selected][op] = TRUE,
                 !.allocatedRate[best.selected][op] = best.bestLatestRate,
                 !.serviceDuration[best.selected][op] = ToUint(35 + (hash[op] % 16))]
        ELSE chosen

\* one iteration of the operator loop, on the selection state S
SelectFor(S, op, currentUsers, hash) ==
    LET cleared == ClearPrevious(S, op)
        best    == UserLoop(op, currentUsers, 1, NoBest)
        chosen  == [cleared EXCEPT !.selectedUser[op] = best.selected]
    IN  IF best.selected # ZeroAddress
        THEN [chosen EXCEPT
                 !.schedulingMatrix[best.selected][op] = TRUE,
                 !.allocatedRate[best.selected][op] = best.bestLatestRate,
                 !.serviceDuration[best.selected][op] = ToUint(35 + (hash[op] % 16))]
        ELSE chosen

RECURSIVE OperatorLoop(_, _, _, _, _)
\* for (uint k = 0; k < currentOperators.length; k++): the user selection
OperatorLoop(S, currentOperators, currentUsers, k, hash) ==
    IF k > Len(currentOperators) THEN S
    ELSE OperatorLoop(SelectFor(S, currentOperators[k], currentUsers, hash),
                      currentOperators, currentUsers, k + 1, hash)

RECURSIVE TotalAllocated(_, _, _, _)
\* the sum of allocatedRate[user][op] over the operators k.. that scheduled user
TotalAllocated(S, user, currentOperators, k) ==
    IF k > Len(currentOperators) THEN ZERO
    ELSE LET op == currentOperators[k]
         IN  UAdd(IF S.schedulingMatrix[user][op]
                  THEN S.allocatedRate[user][op] ELSE ZERO,
                  TotalAllocated(S, user, currentOperators, k + 1))

\* the mutant of ThroughputUpdate that drops the carried remainder
ThroughputUpdateNoCarry(oldThroughput, remainder, totalAllocated) ==
    LET numerator ==
            UAdd(UMul(ToUint(alpha - 1), oldThroughput),
                 UMul(totalAllocated, ToUint(PRECISION)))
    IN  [throughput |-> UDiv(numerator, ToUint(alpha)),
         remainder  |-> UMod(numerator, ToUint(alpha))]

\* the mutant of ThroughputUpdate that never stores a throughput of 0
ThroughputUpdateAtLeastOne(oldThroughput, remainder, totalAllocated) ==
    LET numerator ==
            UAdd(UAdd(UMul(ToUint(alpha - 1), oldThroughput),
                      UMul(totalAllocated, ToUint(PRECISION))),
                 remainder)
        quotient == UDiv(numerator, ToUint(alpha))
    IN  [throughput |-> IF quotient = ZERO THEN ToUint(1) ELSE quotient,
         remainder  |-> UMod(numerator, ToUint(alpha))]

\* the mutant of ThroughputUpdate that takes the remainder modulo PRECISION
ThroughputUpdateWideRemainder(oldThroughput, remainder, totalAllocated) ==
    LET numerator ==
            UAdd(UAdd(UMul(ToUint(alpha - 1), oldThroughput),
                      UMul(totalAllocated, ToUint(PRECISION))),
                 remainder)
    IN  [throughput |-> UDiv(numerator, ToUint(alpha)),
         remainder  |-> UMod(numerator, ToUint(PRECISION))]

\* the mutant of ThroughputUpdate that accumulates the allocations instead of
\* averaging them
ThroughputUpdateSum(oldThroughput, remainder, totalAllocated) ==
    [throughput |-> UAdd(oldThroughput, UMul(totalAllocated, ToUint(PRECISION))),
     remainder  |-> ZERO]

\* the mutant of ThroughputUpdate that weighs the old throughput with alpha
ThroughputUpdateNoDecay(oldThroughput, remainder, totalAllocated) ==
    LET numerator ==
            UAdd(UAdd(UMul(ToUint(alpha), oldThroughput),
                      UMul(totalAllocated, ToUint(PRECISION))),
                 remainder)
    IN  [throughput |-> UDiv(numerator, ToUint(alpha)),
         remainder  |-> UMod(numerator, ToUint(alpha))]

\* the throughput update of one user
ThroughputUpdate(oldThroughput, remainder, totalAllocated) ==
    LET numerator ==
            UAdd(UAdd(UMul(ToUint(alpha - 1), oldThroughput),
                      UMul(totalAllocated, ToUint(PRECISION))),
                 remainder)
    IN  [throughput |-> UDiv(numerator, ToUint(alpha)),
         remainder  |-> UMod(numerator, ToUint(alpha))]

RECURSIVE ThroughputLoop(_, _, _, _, _)
\* for (uint n = 0; n < currentUsers.length; n++): the throughput update, on
\* T = [throughput, throughputRemainder]
ThroughputLoop(T, S, currentUsers, currentOperators, n) ==
    IF n > Len(currentUsers) THEN T
    ELSE LET user == currentUsers[n]
             new  == ThroughputUpdate(T.throughput[user], T.throughputRemainder[user],
                         TotalAllocated(S, user, currentOperators, 1))
         IN  ThroughputLoop(
                 [throughput |-> [T.throughput EXCEPT ![user] = new.throughput],
                  throughputRemainder |->
                      [T.throughputRemainder EXCEPT ![user] = new.remainder]],
                 S, currentUsers, currentOperators, n + 1)

\* the mutant of getSelectedUsers that reads the selection of before the call
getSelectedUsersStale(S, operatorList) ==
    [i \in 1..Len(operatorList) |-> selectedUser[operatorList[i]]]

\* getSelectedUsers(operatorList) on the selection state S
getSelectedUsers(S, operatorList) ==
    [i \in 1..Len(operatorList) |-> S.selectedUser[operatorList[i]]]

\* the mutant of UpdateSchedulingReverts that also rejects an empty user list
UpdateSchedulingNeedsUsers ==
    \/ registrationContract = ZeroAddress
    \/ getAllUsers = <<>>
    \/ /\ statusReportingContract = ZeroAddress
       /\ getAllOperators # <<>>

\* updateScheduling reverts: the registration contract is not set (the call to
\* address(0) fails), or getLatestRate is reached with the status reporting
\* contract not set
UpdateSchedulingReverts ==
    \/ registrationContract = ZeroAddress
    \/ /\ statusReportingContract = ZeroAddress
       /\ getAllUsers # <<>>
       /\ getAllOperators # <<>>

\* function updateScheduling()
UpdateScheduling ==
    /\ IF UpdateSchedulingReverts
       THEN /\ UNCHANGED <<schedulingVars, round>>
            /\ receipt' = Reverted("updateScheduling", <<>>)
       ELSE \E hash \in HashOutcomes :
            \E S \in {OperatorLoop(
                          [selectedUser |-> selectedUser,
                           schedulingMatrix |-> schedulingMatrix,
                           allocatedRate |-> allocatedRate,
                           serviceDuration |-> serviceDuration],
                          getAllOperators, getAllUsers, 1, hash)} :
            \E T \in {ThroughputLoop(
                          [throughput |-> throughput,
                           throughputRemainder |-> throughputRemainder],
                          S, getAllUsers, getAllOperators, 1)} :
                /\ selectedUser' = S.selectedUser
                /\ schedulingMatrix' = S.schedulingMatrix
                /\ allocatedRate' = S.allocatedRate
                /\ serviceDuration' = S.serviceDuration
                /\ throughput' = T.throughput
                /\ throughputRemainder' = T.throughputRemainder
                /\ round' = round + 1
                /\ receipt' =
                     Succeeded("updateScheduling", <<>>,
                         <<[event |-> "Scheduled", operators |-> getAllOperators,
                            selectedUsers |->
                                getSelectedUsers(S, getAllOperators)]>>)
    /\ UNCHANGED <<registrationVars, reportingVars, schedulingRefs, settlementVars,
                   ewmaVars, estimationVars>>

\* function getServiceDuration(address user, address operator)
getServiceDuration(user, operator) == serviceDuration[user][operator]

\* function getSchedulingMatrix(address user, address operator)
getSchedulingMatrix(user, operator) == schedulingMatrix[user][operator]

\* function setStatusReportingContract(address)
SetStatusReportingContract(a) ==
    /\ statusReportingContract' = a
    /\ receipt' = Succeeded("setStatusReportingContract", <<a>>, <<>>)
    /\ UNCHANGED <<registrationVars, reportingVars, schedulingVars,
                   registrationContract, settlementVars, round, ewmaVars,
                   estimationVars>>

\* function setRegistrationContract(address) of SchedulingContract
SetRegistrationContract(a) ==
    /\ registrationContract' = a
    /\ receipt' = Succeeded("setRegistrationContract", <<a>>, <<>>)
    /\ UNCHANGED <<registrationVars, reportingVars, schedulingVars,
                   statusReportingContract, settlementVars, round, ewmaVars,
                   estimationVars>>

\* ------------------------------------------------------------------------
\* SettlementContract
\* ------------------------------------------------------------------------

\* rate = 87, the default rate of calculateCost
DefaultRate == 87

\* duration = 50, the default duration of getServiceParameters
DefaultDuration == 50

\* bandwidth = 1000, the default bandwidth of getServiceParameters
DefaultBandwidth == 1000

\* the mutant of getServiceParameters that never reads the scheduling contract
getServiceParametersDefault(user, operator) ==
    [duration  |-> ToUint(DefaultDuration),
     bandwidth |-> ToUint(DefaultBandwidth)]

\* function getServiceParameters(address user, address operator)
getServiceParameters(user, operator) ==
    LET read == IF schedulingContract # ZeroAddress
                THEN getServiceDuration(user, operator) ELSE ZERO
    IN  [duration  |-> IF read = ZERO THEN ToUint(DefaultDuration) ELSE read,
         bandwidth |-> ToUint(DefaultBandwidth)]

\* the mutant of calculateCost that always charges the default rate
calculateCostFlat(operator, duration, bandwidth) ==
    UMul(UMul(ToUint(DefaultRate), duration), bandwidth)

\* function calculateCost(address operator, uint duration, uint bandwidth)
calculateCost(operator, duration, bandwidth) ==
    LET rate == IF operatorRates[operator] = ZERO
                THEN ToUint(DefaultRate) ELSE operatorRates[operator]
    IN  UMul(UMul(rate, duration), bandwidth)

\* the logs of notify followed by settleService for one scheduled pair
PairLogs(user, operator) ==
    LET p == getServiceParameters(user, operator)
    IN  <<[event |-> "ServiceNotified", user |-> user, operator |-> operator,
           duration |-> p.duration, bandwidth |-> p.bandwidth],
          [event |-> "PaymentProcessed", user |-> user, operator |-> operator,
           cost |-> calculateCost(operator, p.duration, p.bandwidth)]>>

RECURSIVE SettleOperators(_, _, _)
\* for (uint k = 0; k < currentOperators.length; k++) for one user
SettleOperators(user, currentOperators, k) ==
    IF k > Len(currentOperators) THEN <<>>
    ELSE (IF getSchedulingMatrix(user, currentOperators[k])
          THEN PairLogs(user, currentOperators[k]) ELSE <<>>)
         \o SettleOperators(user, currentOperators, k + 1)

RECURSIVE SettleUsers(_, _, _)
\* for (uint n = 0; n < currentUsers.length; n++)
SettleUsers(currentUsers, currentOperators, n) ==
    IF n > Len(currentUsers) THEN <<>>
    ELSE SettleOperators(currentUsers[n], currentOperators, 1)
         \o SettleUsers(currentUsers, currentOperators, n + 1)

\* processScheduledTransactions reverts: the registration contract is not set,
\* or getSchedulingMatrix is reached with the scheduling contract not set
ProcessReverts ==
    \/ settlementRegistration = ZeroAddress
    \/ /\ schedulingContract = ZeroAddress
       /\ getAllUsers # <<>>
       /\ getAllOperators # <<>>

\* the mutant of ProcessScheduledTransactions that unmarks the pairs it settled
ProcessAndUnmark ==
    /\ receipt' =
         IF ProcessReverts
         THEN Reverted("processScheduledTransactions", <<>>)
         ELSE Succeeded("processScheduledTransactions", <<>>,
                  SettleUsers(getAllUsers, getAllOperators, 1))
    /\ schedulingMatrix' =
         IF ProcessReverts THEN schedulingMatrix
         ELSE [u \in Address |-> [o \in Address |-> FALSE]]
    /\ UNCHANGED <<registrationVars, reportingVars, selectedUser, throughput,
                   throughputRemainder, allocatedRate, serviceDuration,
                   schedulingRefs, settlementVars, round, ewmaVars, estimationVars>>

\* the mutant of ProcessScheduledTransactions that releases the allocated rates
\* once they are paid
ProcessAndRelease ==
    /\ receipt' =
         IF ProcessReverts
         THEN Reverted("processScheduledTransactions", <<>>)
         ELSE Succeeded("processScheduledTransactions", <<>>,
                  SettleUsers(getAllUsers, getAllOperators, 1))
    /\ allocatedRate' =
         IF ProcessReverts THEN allocatedRate
         ELSE [u \in Address |-> [o \in Address |-> ZERO]]
    /\ UNCHANGED <<registrationVars, reportingVars, selectedUser, throughput,
                   throughputRemainder, schedulingMatrix, serviceDuration,
                   schedulingRefs, settlementVars, round, ewmaVars, estimationVars>>

\* function processScheduledTransactions()
ProcessScheduledTransactions ==
    /\ receipt' =
         IF ProcessReverts
         THEN Reverted("processScheduledTransactions", <<>>)
         ELSE Succeeded("processScheduledTransactions", <<>>,
                  SettleUsers(getAllUsers, getAllOperators, 1))
    /\ UNCHANGED <<registrationVars, reportingVars, schedulingVars, schedulingRefs,
                   settlementVars, round, ewmaVars, estimationVars>>

\* function settleService(address user, address operator, uint duration,
\* uint bandwidth) public
SettleService(user, operator, duration, bandwidth) ==
    /\ receipt' =
         Succeeded("settleService", <<user, operator, duration, bandwidth>>,
             <<[event |-> "PaymentProcessed", user |-> user, operator |-> operator,
                cost |-> calculateCost(operator, duration, bandwidth)]>>)
    /\ UNCHANGED <<registrationVars, reportingVars, schedulingVars, schedulingRefs,
                   settlementVars, round, ewmaVars, estimationVars>>

\* function setOperatorRate(address operator, uint rate)
SetOperatorRate(operator, rate) ==
    /\ operatorRates' = [operatorRates EXCEPT ![operator] = rate]
    /\ receipt' = Succeeded("setOperatorRate", <<operator, rate>>, <<>>)
    /\ UNCHANGED <<registrationVars, reportingVars, schedulingVars, schedulingRefs,
                   schedulingContract, settlementRegistration, round, ewmaVars,
                   estimationVars>>

\* function setSchedulingContract(address)
SetSchedulingContract(a) ==
    /\ schedulingContract' = a
    /\ receipt' = Succeeded("setSchedulingContract", <<a>>, <<>>)
    /\ UNCHANGED <<registrationVars, reportingVars, schedulingVars, schedulingRefs,
                   settlementRegistration, operatorRates, round, ewmaVars,
                   estimationVars>>

\* function setRegistrationContract(address) of SettlementContract
SetSettlementRegistration(a) ==
    /\ settlementRegistration' = a
    /\ receipt' = Succeeded("setRegistrationContract", <<a>>, <<>>)
    /\ UNCHANGED <<registrationVars, reportingVars, schedulingVars, schedulingRefs,
                   schedulingContract, operatorRates, round, ewmaVars,
                   estimationVars>>

\* ------------------------------------------------------------------------
\* the deployed system
\* ------------------------------------------------------------------------

\* the storage of the four contracts after construction
InitStorage ==
    /\ registry = [a \in Address |-> [id |-> 0, isOperator |-> FALSE]]
    /\ nextOpId = 1
    /\ nextUserId = 1
    /\ allUsers = <<>>
    /\ allOperators = <<>>
    /\ operatorUserRates = [u \in Address |-> [o \in Address |-> <<>>]]
    /\ latestOperatorUserRate = [u \in Address |-> [o \in Address |-> ZERO]]
    /\ selectedUser = [o \in Address |-> ZeroAddress]
    /\ throughput = [u \in Address |-> ZERO]
    /\ throughputRemainder = [u \in Address |-> ZERO]
    /\ schedulingMatrix = [u \in Address |-> [o \in Address |-> FALSE]]
    /\ allocatedRate = [u \in Address |-> [o \in Address |-> ZERO]]
    /\ serviceDuration = [u \in Address |-> [o \in Address |-> ZERO]]
    /\ operatorRates = [o \in Address |-> ZERO]
    /\ round = 0

\* the contract references after the deployment script has configured them
InitWired ==
    /\ statusReportingContract = StatusReportingAddr
    /\ registrationContract = RegistrationAddr
    /\ schedulingContract = SchedulingAddr
    /\ settlementRegistration = RegistrationAddr
    /\ receipt = Succeeded("setRegistrationContract", <<RegistrationAddr>>, <<>>)

\* no throughput experiment, no estimation call under way
InitIdle ==
    /\ ewX = ZERO
    /\ ewK = 0
    /\ ewThroughput = ZERO
    /\ ewRemainder = ZERO
    /\ ewExactNum = ZERO
    /\ ewExactDen = ToUint(1)
    /\ csiInput = <<>>
    /\ estimation = [done |-> FALSE, ok |-> FALSE, rate |-> ZERO]

\* no ProgressMonitor has been constructed
NoProgress == [status |-> "none", currentRound |-> 0]

\* the driver script is not running
InitDriverOff ==
    /\ drvPc = "off"
    /\ drvRound = 0
    /\ drvFaults = 0
    /\ inFlight = {}
    /\ mempool = <<>>
    /\ miningBlock = <<>>
    /\ chain = <<>>
    /\ blockNumber = 0
    /\ progressMonitor = NoProgress
    /\ completedLog = FALSE

Init == InitStorage /\ InitWired /\ InitIdle /\ InitDriverOff

\* the proofs the driver registers with
UserProof == <<171, 205, 225, 35, 69>>
OperatorProof == <<254, 152, 220, 118, 186, 84, 171, 50, 205, 16>>

\* the reports (user, operator, csi) submitted in the rounds, with
\* snrScaled = 693 (rate 1), 138600000 (rate 200000), 138600693 (rate 200001)
RoundReports ==
    {<<"u1", "o1", BytesOf(138600000, 8)>>, <<"u1", "o1", BytesOf(693, 8)>>,
     <<"u2", "o1", BytesOf(138600693, 8)>>,
     <<"u1", "o2", BytesOf(138600000, 8)>>, <<"u2", "o2", BytesOf(138600000, 8)>>}

RECURSIVE SumLen(_, _)
\* the number of entries of the histories of the pairs in P
SumLen(hist, P) ==
    IF P = {} THEN 0
    ELSE LET p == CHOOSE x \in P : TRUE
         IN  Len(hist[p[1]][p[2]]) + SumLen(hist, P \ {p})

\* the number of reports recorded so far
TotalReports == SumLen(operatorUserRates, Address \X Address)

\* the reports the model explores
MaxReports == 3

\* the rounds the model explores
MaxRounds == 2

\* the accounts register in the order of the driver: "u1" before "u2", "o1"
\* before "o2" (the contracts treat all addresses alike)
RegistrationOrder == <<"u1", "u2", "o1", "o2">>

NextInOrder(pool) ==
    {a \in pool : /\ ~isRegistered(a)
                  /\ \A b \in pool :
                        (\E i, j \in 1..Len(RegistrationOrder) :
                            /\ RegistrationOrder[i] = b
                            /\ RegistrationOrder[j] = a
                            /\ i < j) => isRegistered(b)}

RegisterUser ==
    /\ \E user \in NextInOrder(UserPool) : Register(user, UserProof, FALSE)
    /\ UNCHANGED driverVars

RegisterOperator ==
    /\ \E op \in NextInOrder(OpPool) : Register(op, OperatorProof, TRUE)
    /\ UNCHANGED driverVars

Report ==
    /\ TotalReports < MaxReports
    /\ \E r \in RoundReports : SubmitReport(r[1], r[2], r[3])
    /\ UNCHANGED driverVars

Schedule == round < MaxRounds /\ UpdateScheduling /\ UNCHANGED driverVars

Settle == ProcessScheduledTransactions /\ UNCHANGED driverVars

Next == RegisterUser \/ RegisterOperator \/ Report \/ Schedule \/ Settle

Spec == Init /\ [][Next]_vars

\* ------------------------------------------------------------------------
\* the report ledger alone, with reports that are rejected
\* ------------------------------------------------------------------------

\* reports of 0, 7, 8, 8 and 9 bytes; snrScaled = 693 (rate 1), 0 (rate 1443),
\* 9200 (rate 13)
LedgerCSIs ==
    {<<>>, BytesOf(693, 7), BytesOf(693, 8), BytesOf(0, 8),
     BytesOf(9200, 8) \o <<7>>}

LedgerReport ==
    /\ TotalReports < MaxReports
    /\ \E user \in UserPool, op \in OpPool, csi \in LedgerCSIs :
           SubmitReport(user, op, csi)
    /\ UNCHANGED driverVars

SpecLedger == Init /\ [][LedgerReport]_vars

\* ------------------------------------------------------------------------
\* more rounds with fewer reports
\* ------------------------------------------------------------------------

\* the reports of the long runs: rates 200000 and 200001 for "u1"
LongReports ==
    {<<"u1", "o1", BytesOf(138600000, 8)>>, <<"u1", "o2", BytesOf(138600693, 8)>>}

\* the reports of a long run
MaxLongReports == 2

\* the rounds of a long run
MaxLongRounds == 4

LongReport ==
    /\ TotalReports < MaxLongReports
    /\ \E r \in LongReports : SubmitReport(r[1], r[2], r[3])
    /\ UNCHANGED driverVars

LongSchedule == round < MaxLongRounds /\ UpdateScheduling /\ UNCHANGED driverVars

NextLong == RegisterUser \/ RegisterOperator \/ LongReport \/ LongSchedule

SpecLong == Init /\ [][NextLong]_vars

\* ------------------------------------------------------------------------
\* settlement with configured operator rates and direct settleService calls
\* ------------------------------------------------------------------------

\* the reports before a settlement: rate 200000 for each pair
SettleReports ==
    {<<"u1", "o1", BytesOf(138600000, 8)>>, <<"u2", "o2", BytesOf(138600000, 8)>>}

\* the reports of a settlement run
MaxSettleReports == 2

\* the rounds of a settlement run
MaxSettleRounds == 2

\* the rates given to setOperatorRate: 0 (back to the default) and 3
SettleRates == {ZERO, ToUint(3)}

SettleReport ==
    /\ TotalReports < MaxSettleReports
    /\ \E r \in SettleReports : SubmitReport(r[1], r[2], r[3])
    /\ UNCHANGED driverVars

SettleSchedule == round < MaxSettleRounds /\ UpdateScheduling /\ UNCHANGED driverVars

\* setOperatorRate(operator, rate) sent by any account
SetRate ==
    /\ \E o \in OpPool, rate \in SettleRates : SetOperatorRate(o, rate)
    /\ UNCHANGED driverVars

\* settleService(user, "o1", 50, 1000) sent by any account
DirectSettle ==
    /\ \E u \in UserPool :
         SettleService(u, "o1", ToUint(DefaultDuration), ToUint(DefaultBandwidth))
    /\ UNCHANGED driverVars

NextSettle ==
    \/ RegisterUser
    \/ RegisterOperator
    \/ SettleReport
    \/ SettleSchedule
    \/ Settle
    \/ SetRate
    \/ DirectSettle

SpecSettle == Init /\ [][NextSettle]_vars

\* ------------------------------------------------------------------------
\* the contracts between their construction and the end of the configuration
\* ------------------------------------------------------------------------

\* the contract references after construction: none is configured
InitUnwired ==
    /\ statusReportingContract = ZeroAddress
    /\ registrationContract = ZeroAddress
    /\ schedulingContract = ZeroAddress
    /\ settlementRegistration = ZeroAddress
    /\ receipt = Succeeded("constructor", <<>>, <<>>)

InitWiring == InitStorage /\ InitUnwired /\ InitIdle /\ InitDriverOff

\* the reports submitted while the contracts are being configured
WiringReports == {<<"u1", "o1", BytesOf(138600000, 8)>>}

\* the reports and rounds the configuration model explores
MaxWiringReports == 1
MaxWiringRounds == 2

WiringReport ==
    /\ TotalReports < MaxWiringReports
    /\ \E r \in WiringReports : SubmitReport(r[1], r[2], r[3])
    /\ UNCHANGED driverVars

WiringSchedule == round < MaxWiringRounds /\ UpdateScheduling /\ UNCHANGED driverVars

\* the four configuration calls of the deployment script, in any order
WireStatusReporting ==
    SetStatusReportingContract(StatusReportingAddr) /\ UNCHANGED driverVars

WireRegistration ==
    SetRegistrationContract(RegistrationAddr) /\ UNCHANGED driverVars

WireScheduling ==
    SetSchedulingContract(SchedulingAddr) /\ UNCHANGED driverVars

WireSettlementRegistration ==
    SetSettlementRegistration(RegistrationAddr) /\ UNCHANGED driverVars

NextWiring ==
    \/ RegisterUser
    \/ RegisterOperator
    \/ WiringReport
    \/ WiringSchedule
    \/ Settle
    \/ WireStatusReporting
    \/ WireRegistration
    \/ WireScheduling
    \/ WireSettlementRegistration

SpecWiring == InitWiring /\ [][NextWiring]_vars

\* ------------------------------------------------------------------------
\* a long run: a user is served once, then nobody reports a positive rate
\* for many rounds, then a user that was never served competes with it
\* ------------------------------------------------------------------------

\* the accounts of the long run, registered before the first round
ColdAccounts == {"u1", "u2", "o1"}

\* the reports of the long run: "u1" with snrScaled = 693 (rate 1) and
\* snrScaled = 1 (rate 0), "u2" with snrScaled = 693 (rate 1)
ColdReports ==
    {<<"u1", "o1", BytesOf(693, 8)>>, <<"u1", "o1", BytesOf(1, 8)>>,
     <<"u2", "o1", BytesOf(693, 8)>>}

\* the rounds and the reports of the long run
MaxColdRounds == 69584
MaxColdReports == 4

\* no pair has a positive latest rate
ColdIdle == \A u, o \in Address : latestOperatorUserRate[u][o] = ZERO

ColdRegisterUser ==
    /\ round = 0
    /\ \E user \in NextInOrder(UserPool \cap ColdAccounts) :
           Register(user, UserProof, FALSE)
    /\ UNCHANGED driverVars

ColdRegisterOperator ==
    /\ round = 0
    /\ \E op \in NextInOrder(OpPool \cap ColdAccounts) :
           Register(op, OperatorProof, TRUE)
    /\ UNCHANGED driverVars

\* reports arrive around the first round and after the idle period
ColdReport ==
    /\ \A a \in ColdAccounts : isRegistered(a)
    /\ \/ round <= 1 /\ TotalReports < 2
       \/ round = MaxColdRounds - 1 /\ TotalReports < MaxColdReports
    /\ \E r \in ColdReports : SubmitReport(r[1], r[2], r[3])
    /\ UNCHANGED driverVars

\* the rounds: the first one, the idle ones, the one after the idle period
ColdSchedule ==
    /\ round < MaxColdRounds
    /\ \A a \in ColdAccounts : isRegistered(a)
    /\ \/ round = 0 /\ ~ColdIdle
       \/ round >= 1 /\ round < MaxColdRounds - 1 /\ ColdIdle /\ TotalReports = 2
       \/ round = MaxColdRounds - 1 /\ TotalReports = MaxColdReports
    /\ UpdateScheduling
    /\ UNCHANGED driverVars

NextCold == ColdRegisterUser \/ ColdRegisterOperator \/ ColdReport \/ ColdSchedule

SpecCold == Init /\ [][NextCold]_vars

\* ------------------------------------------------------------------------
\* the registration contract called by anybody, in any order
\* ------------------------------------------------------------------------

\* the proofs of the calls: one byte short of a user proof, a user proof, one
\* byte short of an operator proof, an operator proof
RegistryProofs ==
    {SubSeq(UserProof, 1, 4), UserProof, SubSeq(OperatorProof, 1, 9),
     OperatorProof}

\* register(user, proof, isOperator) with any address, proof and role
RegistryRegister ==
    /\ \E user \in Address, proof \in RegistryProofs, isOperator \in BOOLEAN :
           Register(user, proof, isOperator)
    /\ UNCHANGED driverVars

SpecRegistry == Init /\ [][RegistryRegister]_vars

\* ------------------------------------------------------------------------
\* a user served once and never again, while the rounds go on
\* ------------------------------------------------------------------------

\* the reports of "u1": snrScaled = 693 (rate 1) and snrScaled = 1 (rate 0)
DecayReports == {<<"u1", "o1", BytesOf(693, 8)>>, <<"u1", "o1", BytesOf(1, 8)>>}

\* the rounds of the run
MaxDecayRounds == 97873

\* the two reports arrive around the first round
DecayReport ==
    /\ \A a \in ColdAccounts : isRegistered(a)
    /\ round <= 1
    /\ TotalReports < 2
    /\ \E r \in DecayReports : SubmitReport(r[1], r[2], r[3])
    /\ UNCHANGED driverVars

\* the first round, then the rounds in which no pair has a positive rate
DecayDue ==
    /\ round < MaxDecayRounds
    /\ \A a \in ColdAccounts : isRegistered(a)
    /\ \/ round = 0 /\ ~ColdIdle
       \/ round >= 1 /\ ColdIdle /\ Len(operatorUserRates["u1"]["o1"]) = 2

DecaySchedule == DecayDue /\ UpdateScheduling /\ UNCHANGED driverVars

NextDecay == ColdRegisterUser \/ ColdRegisterOperator \/ DecayReport \/ DecaySchedule

\* a round that is due takes place
DecayRound == DecayDue /\ round' = round + 1

\* the driver keeps running the rounds that are due
SpecDecay == Init /\ [][NextDecay]_vars /\ WF_round(DecayRound)

\* ------------------------------------------------------------------------
\* the driver script and the node it sends its transactions to
\* ------------------------------------------------------------------------

\* the accounts of register(), in its order: the operators, then the users
\* (one operator and two users of the script's two and four)
DriverAccounts == <<"o1", "u1", "u2">>

\* the pairs of users.flatMap(operators.map(...))
DriverPairs == {"u1", "u2"} \X {"o1"}

\* totalRounds
MaxDriverRounds == 3

\* the calls of the driver that fail in one run
MaxFaults == 1

\* generateCSIData(userNum, operatorIndex): the sample of the pair in round r
\* (random in the script); its rate is 1000 * userNum + 100 * operatorNum + r
DriverCsi(user, operator, r) ==
    BytesOf(693 * (1000 * (IF user = "u1" THEN 1 ELSE 2)
                   + 100 * (IF operator = "o1" THEN 1 ELSE 2) + r), 8)

\* the storage of the contracts and the last receipt
contractVars ==
    <<registrationVars, reportingVars, schedulingVars, schedulingRefs,
      settlementVars, receipt, round>>

\* a transaction of the driver, labelled with the round that sent it
DriverTx(kind, r, user, operator) ==
    [kind |-> kind, round |-> r, user |-> user, operator |-> operator]

\* if (round % 500 === 0) progressMonitor.updateProgress(round)
ProgressEvery == 500

\* ProgressMonitor.init(totalRounds)
MonitorInit == [status |-> "running", currentRound |-> 0]

\* ProgressMonitor.updateProgress(round)
MonitorUpdateProgress(r) == [status |-> "running", currentRound |-> r]

\* ProgressMonitor.error(errorMsg): currentRound is the last one written
MonitorError == [status |-> "error", currentRound |-> progressMonitor.currentRound]

\* ProgressMonitor.complete()
MonitorComplete == [status |-> "completed", currentRound |-> MaxDriverRounds]

\* the script starts after the deployment, with automine on
InitDriver ==
    /\ InitStorage /\ InitWired /\ InitIdle
    /\ drvPc = "register"
    /\ drvRound = 0
    /\ drvFaults = 0
    /\ inFlight = {}
    /\ mempool = <<>>
    /\ miningBlock = <<>>
    /\ chain = <<>>
    /\ blockNumber = 0
    /\ progressMonitor = NoProgress
    /\ completedLog = FALSE

\* register(): one registration, mined at once; after the last one
\* runSchedulingRounds() starts with progressMonitor.init(totalRounds)
DriverRegister ==
    /\ drvPc = "register"
    /\ LET k == Len(allUsers) + Len(allOperators) + 1
           a == DriverAccounts[k]
       IN  /\ k <= Len(DriverAccounts)
           /\ Register(a, IF a \in OpPool THEN OperatorProof ELSE UserProof,
                       a \in OpPool)
           /\ drvPc' = IF k = Len(DriverAccounts) THEN "begin" ELSE "register"
           /\ progressMonitor' = IF k = Len(DriverAccounts)
                                 THEN MonitorInit
                                 ELSE progressMonitor
    /\ UNCHANGED <<drvRound, drvFaults, inFlight, mempool, miningBlock, chain,
                   blockNumber, completedLog>>

\* for (let round = 1; round <= totalRounds; round++): automine is switched
\* off and the submitReport calls of all pairs are begun
DriverBeginRound ==
    /\ drvPc = "begin"
    /\ IF drvRound + 1 > MaxDriverRounds
       THEN /\ drvPc' = "done"
            /\ UNCHANGED <<drvRound, inFlight>>
       ELSE /\ drvPc' = "reports"
            /\ drvRound' = drvRound + 1
            /\ inFlight' = inFlight \cup
                   {DriverTx("submitReport", drvRound + 1, p[1], p[2]) :
                        p \in DriverPairs}
    /\ UNCHANGED <<drvFaults, mempool, miningBlock, chain, blockNumber>>
    /\ UNCHANGED <<contractVars, ewmaVars, estimationVars>>
    /\ UNCHANGED monitorVars

\* a submitReport call reaches the node and is pending
DriverSendReport ==
    /\ \E x \in inFlight :
          /\ inFlight' = inFlight \ {x}
          /\ mempool' = Append(mempool, x)
    /\ UNCHANGED <<drvPc, drvRound, drvFaults, miningBlock, chain, blockNumber>>
    /\ UNCHANGED <<contractVars, ewmaVars, estimationVars>>
    /\ UNCHANGED monitorVars

\* the mutant of DriverReportsSent that does not wait for the pending sends
DriverReportsUnawaited ==
    /\ drvPc = "reports"
    /\ drvPc' = "schedule"
    /\ UNCHANGED <<drvRound, drvFaults, inFlight, mempool, miningBlock, chain,
                   blockNumber>>
    /\ UNCHANGED <<contractVars, ewmaVars, estimationVars>>
    /\ UNCHANGED monitorVars

\* await Promise.all(reportSendPromises)
DriverReportsSent ==
    /\ drvPc = "reports"
    /\ \A x \in inFlight : x.round # drvRound
    /\ drvPc' = "schedule"
    /\ UNCHANGED <<drvRound, drvFaults, inFlight, mempool, miningBlock, chain,
                   blockNumber>>
    /\ UNCHANGED <<contractVars, ewmaVars, estimationVars>>
    /\ UNCHANGED monitorVars

\* await schedulingContract.updateScheduling()
DriverSendSchedule ==
    /\ drvPc = "schedule"
    /\ mempool' = Append(mempool,
                      DriverTx("updateScheduling", drvRound, ZeroAddress, ZeroAddress))
    /\ drvPc' = "settle"
    /\ UNCHANGED <<drvRound, drvFaults, inFlight, miningBlock, chain, blockNumber>>
    /\ UNCHANGED <<contractVars, ewmaVars, estimationVars>>
    /\ UNCHANGED monitorVars

\* await settlementContract.processScheduledTransactions()
DriverSendSettle ==
    /\ drvPc = "settle"
    /\ mempool' = Append(mempool,
                      DriverTx("processScheduledTransactions", drvRound,
                               ZeroAddress, ZeroAddress))
    /\ drvPc' = "mine"
    /\ UNCHANGED <<drvRound, drvFaults, inFlight, miningBlock, chain, blockNumber>>
    /\ UNCHANGED <<contractVars, ewmaVars, estimationVars>>
    /\ UNCHANGED monitorVars

\* evm_mine: the pending transactions become the next block
DriverMine ==
    /\ drvPc = "mine"
    /\ miningBlock' = mempool
    /\ mempool' = <<>>
    /\ drvPc' = "mining"
    /\ UNCHANGED <<drvRound, drvFaults, inFlight, chain, blockNumber>>
    /\ UNCHANGED <<contractVars, ewmaVars, estimationVars>>
    /\ UNCHANGED monitorVars

\* the node executes the next transaction of the block
DriverExecute ==
    /\ drvPc = "mining"
    /\ miningBlock # <<>>
    /\ LET tx == Head(miningBlock)
       IN  /\ \/ /\ tx.kind = "submitReport"
                 /\ SubmitReport(tx.user, tx.operator,
                                 DriverCsi(tx.user, tx.operator, tx.round))
              \/ /\ tx.kind = "updateScheduling"
                 /\ UpdateScheduling
              \/ /\ tx.kind = "processScheduledTransactions"
                 /\ ProcessScheduledTransactions
           /\ chain' = Append(chain,
                  [kind |-> tx.kind, round |-> tx.round, user |-> tx.user,
                   operator |-> tx.operator, block |-> blockNumber + 1])
    /\ miningBlock' = Tail(miningBlock)
    /\ UNCHANGED <<drvPc, drvRound, drvFaults, inFlight, mempool, blockNumber>>
    /\ UNCHANGED monitorVars

\* the block is mined (after round 1 an empty second block is mined), every
\* ProgressEvery-th round is written to the progress file and the loop goes on
DriverBlockMined ==
    /\ drvPc = "mining"
    /\ miningBlock = <<>>
    /\ blockNumber' = blockNumber + (IF drvRound = 1 THEN 2 ELSE 1)
    /\ drvPc' = "begin"
    /\ progressMonitor' = IF drvRound % ProgressEvery = 0
                          THEN MonitorUpdateProgress(drvRound)
                          ELSE progressMonitor
    /\ UNCHANGED <<drvRound, drvFaults, inFlight, mempool, miningBlock, chain,
                   completedLog>>
    /\ UNCHANGED <<contractVars, ewmaVars, estimationVars>>

\* a call of the round throws; catch (error): progressMonitor.error(errorMsg),
\* then an error naming 'panicked' or 'task' continues with the next round and
\* any other leaves the loop
DriverFault ==
    /\ drvFaults < MaxFaults
    /\ drvPc \in {"reports", "schedule", "settle", "mine"}
    /\ drvFaults' = drvFaults + 1
    /\ IF drvPc = "reports"
       THEN \E x \in inFlight : x.round = drvRound /\ inFlight' = inFlight \ {x}
       ELSE UNCHANGED inFlight
    /\ progressMonitor' = MonitorError
    /\ \E internal \in BOOLEAN : drvPc' = IF internal THEN "begin" ELSE "stopped"
    /\ UNCHANGED <<drvRound, mempool, miningBlock, chain, blockNumber,
                   completedLog>>
    /\ UNCHANGED <<contractVars, ewmaVars, estimationVars>>

\* the code after the loop, reached by the end of the rounds and by break: the
\* line that all totalRounds rounds of scheduling completed is printed, the
\* throughput of every user is read and, unless a read throws, the progress
\* file is completed
DriverAfterLoop ==
    /\ drvPc \in {"done", "stopped"}
    /\ completedLog' = TRUE
    /\ \E readThrows \in BOOLEAN :
          IF readThrows
          THEN /\ drvPc' = "failed"
               /\ UNCHANGED progressMonitor
          ELSE /\ drvPc' = "finished"
               /\ progressMonitor' = MonitorComplete
    /\ UNCHANGED <<drvRound, drvFaults, inFlight, mempool, miningBlock, chain,
                   blockNumber>>
    /\ UNCHANGED <<contractVars, ewmaVars, estimationVars>>


NextDriver ==
    \/ DriverRegister
    \/ DriverBeginRound
    \/ DriverSendReport
    \/ DriverReportsSent
    \/ DriverSendSchedule
    \/ DriverSendSettle
    \/ DriverMine
    \/ DriverExecute
    \/ DriverBlockMined
    \/ DriverFault
    \/ DriverAfterLoop

SpecDriver == InitDriver /\ [][NextDriver]_vars

\* ------------------------------------------------------------------------
\* the throughput update of one user under a fixed allocation
\* ------------------------------------------------------------------------

\* the allocations per round that are tried
EwmaAllocations ==
    {ToUint(x) : x \in {1, 13, 100, 500, 1000, 1443, 2500, 3929, 5000, 7500,
                        7715, 10001, 40001}}

\* the rounds that are applied
MaxEwmaRounds == 8

InitEwma ==
    /\ InitStorage /\ InitWired /\ InitDriverOff
    /\ ewX \in EwmaAllocations
    /\ ewK = 0
    /\ ewThroughput = ZERO
    /\ ewRemainder = ZERO
    /\ ewExactNum = ZERO
    /\ ewExactDen = ToUint(1)
    /\ csiInput = <<>>
    /\ estimation = [done |-> FALSE, ok |-> FALSE, rate |-> ZERO]

\* one more round for the user: the throughput update with totalAllocated =
\* ewX, and beside it the exact average E' = ((alpha-1) * E + X * PRECISION) /
\* alpha as a fraction
EwmaRound ==
    /\ ewK < MaxEwmaRounds
    /\ \E new \in {ThroughputUpdate(ewThroughput, ewRemainder, ewX)} :
           /\ ewThroughput' = new.throughput
           /\ ewRemainder' = new.remainder
    /\ ewK' = ewK + 1
    /\ ewExactNum' = UAdd(UMul(ToUint(alpha - 1), ewExactNum),
                          UMul(UMul(ewX, ToUint(PRECISION)), ewExactDen))
    /\ ewExactDen' = UMul(ToUint(alpha), ewExactDen)
    /\ UNCHANGED <<registrationVars, reportingVars, schedulingVars, schedulingRefs,
                   settlementVars, receipt, round, ewX, estimationVars>>
    /\ UNCHANGED driverVars

SpecEwma == InitEwma /\ [][EwmaRound]_vars

\* ------------------------------------------------------------------------
\* rateEstimation on its own
\* ------------------------------------------------------------------------

\* the values of the first eight bytes that are tried
SnrSamples ==
    (0..40) \cup {346, 347, 692, 693, 1039, 1040, 9200, 65535, 65536, 1000000,
                  138600000, 138600693, 2147483647}

\* the bytes that follow the first eight
Trailers == {<<>>, <<0>>, <<255, 1, 0, 0, 9>>}

\* the reports rateEstimation is called with
RateInputs ==
    {BytesOf(n, 8) \o t : n \in SnrSamples, t \in Trailers}
    \cup {<<h>> \o BytesOf(n, 7) \o t : h \in {1, 255}, n \in {0, 1, 16777216},
                                        t \in Trailers}
    \cup {<<>>, <<1>>, BytesOf(693, 7), BytesOf(0, 7)}

InitEstimation ==
    /\ InitStorage /\ InitWired /\ InitDriverOff
    /\ ewX = ZERO
    /\ ewK = 0
    /\ ewThroughput = ZERO
    /\ ewRemainder = ZERO
    /\ ewExactNum = ZERO
    /\ ewExactDen = ToUint(1)
    /\ csiInput \in RateInputs
    /\ estimation = [done |-> FALSE, ok |-> FALSE, rate |-> ZERO]

\* the call rateEstimation(csiInput)
Estimate ==
    /\ ~estimation.done
    /\ estimation' = [done |-> TRUE, ok |-> rateEstimation(csiInput).ok,
                      rate |-> rateEstimation(csiInput).rate]
    /\ UNCHANGED <<registrationVars, reportingVars, schedulingVars, schedulingRefs,
                   settlementVars, receipt, round, ewmaVars, csiInput>>
    /\ UNCHANGED driverVars

SpecRate == InitEstimation /\ [][Estimate]_vars

\* ------------------------------------------------------------------------
\* claims
\* ------------------------------------------------------------------------

Registered(list) == {list[i] : i \in 1..Len(list)}

\* the position of a in list
IndexOf(list, a) == CHOOSE i \in 1..Len(list) : list[i] = a

RECURSIVE USum(_, _)
\* the sum of f[x] over x in S
USum(f, S) ==
    IF S = {} THEN ZERO
    ELSE LET x == CHOOSE y \in S : TRUE
         IN  UAdd(f[x], USum(f, S \ {x}))

RECURSIVE UPow(_, _)
\* a ^ k
UPow(a, k) == IF k = 0 THEN ToUint(1) ELSE UMul(a, UPow(a, k - 1))

\* C1: after K rounds with the fixed allocation X, from (0, 0), the stored
\* throughput is the floor of the exact rational average E_K:
\* throughput <= E_K < throughput + 1
C1_ThroughputIsExactFloor ==
    /\ ULe(UMul(ewExactDen, ewThroughput), ewExactNum)
    /\ ULt(ewExactNum, UMul(ewExactDen, UAdd(ewThroughput, ToUint(1))))

\* the first eight bytes of csi as a big-endian number, term by term
BigEndian8(csi) ==
    USum([i \in 1..8 |-> UMul(ToUint(csi[i]), UPow(ToUint(256), 8 - i))], 1..8)

\* (1000 * s + 346500) div 693000
RoundedRate(s) ==
    UDiv(UAdd(UMul(ToUint(1000), s), ToUint(346500)), ToUint(693000))

\* C7: a report of at least 8 bytes is accepted and its rate is
\* (1000 * s + 346500) div 693000, s the big-endian value of the first eight
\* bytes or 1000000 when that is 0 (so the later bytes do not matter); first
\* eight bytes of zero give 1443
C7_RateFormula ==
    (estimation.done /\ Len(csiInput) >= 8) =>
        LET v == BigEndian8(csiInput)
            s == IF v = ZERO THEN ToUint(1000000) ELSE v
        IN  /\ estimation.ok
            /\ estimation.rate = RoundedRate(s)
            /\ v = ZERO => estimation.rate = ToUint(1443)

\* C7 witness: a 13-byte report with eight leading zero bytes was estimated
\* at 1443
C7_Witness ==
    /\ estimation.done
    /\ Len(csiInput) = 13
    /\ SubSeq(csiInput, 1, 8) = BytesOf(0, 8)
    /\ csiInput[9] = 255
    /\ estimation.rate = ToUint(1443)

\* the step is a successful updateScheduling
SchedulingStep ==
    receipt'.fn = "updateScheduling" /\ receipt'.ok /\ round' = round + 1

\* the state follows a successful updateScheduling
AfterScheduling == receipt.fn = "updateScheduling" /\ receipt.ok

\* C2: updateScheduling replaces (throughput, remainder) of every registered
\* user by (numerator div ALPHA, numerator mod ALPHA), numerator = (ALPHA-1) *
\* old + total * PRECISION + old remainder, total the sum of the rates allocated
\* by the operators that selected the user in this call (0 if none did)
C2_ThroughputUpdatedOnce ==
    [][SchedulingStep =>
        \A u \in Registered(allUsers) :
            LET by    == {op \in Registered(allOperators) : selectedUser'[op] = u}
                total == USum([op \in by |-> allocatedRate'[u][op]], by)
                numerator ==
                    UAdd(UAdd(UMul(ToUint(9999), throughput[u]),
                              UMul(total, ToUint(100000000))),
                         throughputRemainder[u])
            IN  /\ throughput'[u] = UDiv(numerator, ToUint(10000))
                /\ throughputRemainder'[u] = UMod(numerator, ToUint(10000))
    ]_vars

\* C2 witness: after four rounds "u1" is selected by both operators, "u2" by
\* none, and a non-zero remainder has been carried
C2_Witness ==
    /\ AfterScheduling
    /\ round = 4
    /\ selectedUser["o1"] = "u1"
    /\ selectedUser["o2"] = "u1"
    /\ "u2" \in Registered(allUsers)
    /\ throughput["u2"] = ZERO
    /\ throughputRemainder["u1"] # ZERO

\* the priority of the claim
ClaimPriority(rate, tp) ==
    IF tp # ZERO
    THEN UDiv(UMul(rate, UPow(ToUint(10), 9)), tp)
    ELSE UMul(rate, UPow(ToUint(10), 8))

\* C3: after updateScheduling every registered operator has selected the
\* earliest-registered user among those of maximal priority, the priority
\* taken from the throughput before the call; none exactly when every
\* priority is 0
C3_EarliestOfMaximalPriority ==
    [][SchedulingStep =>
        \A op \in Registered(allOperators) :
            LET users == Registered(allUsers)
                P(u)  == ClaimPriority(latestOperatorUserRate[u][op], throughput[u])
                sel   == selectedUser'[op]
            IN  IF \A u \in users : P(u) = ZERO
                THEN sel = ZeroAddress
                ELSE /\ sel \in users
                     /\ \A u \in users :
                          /\ ULe(P(u), P(sel))
                          /\ IndexOf(allUsers, u) < IndexOf(allUsers, sel)
                                => ULt(P(u), P(sel))
    ]_vars

\* C3 witness: in the first round "u1" and "u2" tie at "o2" and the earlier
\* "u1" is selected, while at "o1" the later "u2" wins on a greater priority
C3_Witness ==
    /\ AfterScheduling
    /\ round = 1
    /\ allUsers = <<"u1", "u2">>
    /\ latestOperatorUserRate["u1"]["o2"] = ToUint(200000)
    /\ latestOperatorUserRate["u2"]["o2"] = ToUint(200000)
    /\ selectedUser["o2"] = "u1"
    /\ latestOperatorUserRate["u2"]["o1"] = ToUint(200001)
    /\ selectedUser["o1"] = "u2"

\* C4: every registered operator has at most one user marked in
\* schedulingMatrix, and that user is registered
C4_AtMostOneSelected ==
    \A op \in Registered(allOperators) :
        /\ Cardinality({u \in Address : schedulingMatrix[u][op]}) <= 1
        /\ \A u \in Address : schedulingMatrix[u][op] => u \in Registered(allUsers)

\* C4 witness: in the second round "o1" moved from "u1" (whose duration of the
\* first round is still stored) to "u2"
C4_Witness ==
    /\ round = 2
    /\ schedulingMatrix["u2"]["o1"]
    /\ ~schedulingMatrix["u1"]["o1"]
    /\ serviceDuration["u1"]["o1"] # ZERO

\* C5: after updateScheduling every registered operator for which some
\* registered user has a positive latest rate has selected a registered user
C5_EveryOperatorSelects ==
    AfterScheduling =>
        \A op \in Registered(allOperators) :
            (\E u \in Registered(allUsers) : latestOperatorUserRate[u][op] # ZERO)
                => selectedUser[op] \in Registered(allUsers)

\* C6: after updateScheduling no registered user with positive throughput has
\* a strictly larger exact ratio latestRate / throughput (throughput of before
\* the call) than the selected user, when that one has positive throughput:
\* rate(u) * throughput(sel) > rate(sel) * throughput(u) never holds
C6_HighestExactRatio ==
    [][SchedulingStep =>
        \A op \in Registered(allOperators) :
            LET sel == selectedUser'[op]
            IN  (sel # ZeroAddress /\ throughput[sel] # ZERO) =>
                    \A u \in Registered(allUsers) :
                        throughput[u] # ZERO =>
                            ~UGt(UMul(latestOperatorUserRate[u][op], throughput[sel]),
                                 UMul(latestOperatorUserRate[sel][op], throughput[u]))
    ]_vars

\* the rate of the claim for an accepted report
ClaimRate(csi) ==
    LET v == BigEndian8(csi)
    IN  RoundedRate(IF v = ZERO THEN ToUint(1000000) ELSE v)

\* C8: a submitReport with fewer than 8 bytes fails, changes no history and
\* no latest rate and logs nothing; a submission of at least 8 bytes for the
\* pair of a failed submission succeeds and is recorded
C8_ShortReportRejected ==
    [][receipt'.fn = "submitReport" =>
        /\ Len(receipt'.args[3]) < 8 =>
              /\ ~receipt'.ok
              /\ receipt'.logs = <<>>
              /\ UNCHANGED reportingVars
        /\ (/\ receipt.fn = "submitReport"
            /\ ~receipt.ok
            /\ receipt'.args[1] = receipt.args[1]
            /\ receipt'.args[2] = receipt.args[2]
            /\ Len(receipt'.args[3]) >= 8) =>
              /\ receipt'.ok
              /\ Len(operatorUserRates'[receipt.args[1]][receipt.args[2]]) =
                     Len(operatorUserRates[receipt.args[1]][receipt.args[2]]) + 1
    ]_vars

\* C8 witness: a 7-byte report for a pair with a recorded history was rejected
C8_Witness ==
    /\ receipt.fn = "submitReport"
    /\ ~receipt.ok
    /\ Len(receipt.args[3]) = 7
    /\ operatorUserRates[receipt.args[1]][receipt.args[2]] # <<>>

\* the step is a successful submitReport for the pair (u, o)
ReportStepFor(u, o) ==
    /\ receipt'.fn = "submitReport"
    /\ receipt'.ok
    /\ receipt'.args[1] = u
    /\ receipt'.args[2] = o

\* C9: the latest rate of a pair is 0 until a report for the pair succeeds and
\* then the rate of the last successful report for the pair; failed reports and
\* reports for other pairs do not change it
C9_LatestRateIsLastReport ==
    /\ \A u, o \in Address : latestOperatorUserRate[u][o] = ZERO
    /\ [][\A u, o \in Address :
            latestOperatorUserRate'[u][o] =
                IF ReportStepFor(u, o)
                THEN ClaimRate(receipt'.args[3])
                ELSE latestOperatorUserRate[u][o]
       ]_vars

\* C9 witness: the pair ("u1", "o1") has three reports, the last one of rate 1
\* after one of rate 1443, and its latest rate is 1
C9_Witness ==
    /\ Len(operatorUserRates["u1"]["o1"]) = 3
    /\ operatorUserRates["u1"]["o1"][2] = ToUint(1443)
    /\ operatorUserRates["u1"]["o1"][3] = ToUint(1)
    /\ latestOperatorUserRate["u1"]["o1"] = ToUint(1)
    /\ latestOperatorUserRate["u2"]["o1"] = ZERO

\* C10: a successful submitReport appends one entry to the history of its
\* pair; no step changes or removes an entry; the last entry of a non-empty
\* history is the latest rate of the pair
C10_HistoryAppendOnly ==
    /\ [](\A u, o \in Address :
            operatorUserRates[u][o] # <<>> =>
                operatorUserRates[u][o][Len(operatorUserRates[u][o])]
                    = latestOperatorUserRate[u][o])
    /\ [][\A u, o \in Address :
            IF ReportStepFor(u, o)
            THEN /\ Len(operatorUserRates'[u][o]) = Len(operatorUserRates[u][o]) + 1
                 /\ SubSeq(operatorUserRates'[u][o], 1, Len(operatorUserRates[u][o]))
                        = operatorUserRates[u][o]
            ELSE operatorUserRates'[u][o] = operatorUserRates[u][o]
       ]_vars

\* C10 witness: the history of ("u1", "o1") holds 200000, 1, 200000 in the
\* order of the reports, after a round was scheduled in between
C10_Witness ==
    /\ operatorUserRates["u1"]["o1"] = <<ToUint(200000), ToUint(1), ToUint(200000)>>
    /\ latestOperatorUserRate["u1"]["o1"] = ToUint(200000)
    /\ round >= 1

\* C11: a submitReport for the pair (u, op), successful or failed, leaves the
\* history and the latest rate of every other pair unchanged, so reports for
\* different pairs commute; a successful one sets the latest rate of its own
\* pair to its own rate whatever was stored (the last applied wins, no merge)
C11_ReportsDoNotInterfere ==
    [][receipt'.fn = "submitReport" =>
        LET u  == receipt'.args[1]
            op == receipt'.args[2]
        IN  /\ \A v, o \in Address :
                 <<v, o>> # <<u, op>> =>
                    /\ operatorUserRates'[v][o] = operatorUserRates[v][o]
                    /\ latestOperatorUserRate'[v][o] = latestOperatorUserRate[v][o]
            /\ receipt'.ok =>
                 latestOperatorUserRate'[u][op] = ClaimRate(receipt'.args[3])
    ]_vars

\* C11 witness: ("u1", "o1") was reported twice, the smaller rate 1 last, and
\* ("u1", "o2") once with rate 13; each pair shows its own last rate
C11_Witness ==
    /\ operatorUserRates["u1"]["o1"] = <<ToUint(1443), ToUint(1)>>
    /\ latestOperatorUserRate["u1"]["o1"] = ToUint(1)
    /\ operatorUserRates["u1"]["o2"] = <<ToUint(13)>>
    /\ latestOperatorUserRate["u1"]["o2"] = ToUint(13)

\* the state follows a successful processScheduledTransactions
AfterSettlement == receipt.fn = "processScheduledTransactions" /\ receipt.ok

\* the pairs marked as selected in the scheduling state
MarkedPairs == {p \in Address \X Address : schedulingMatrix[p[1]][p[2]]}

\* the rate of an operator in the claim: the configured one, 87 if none
ClaimOperatorRate(o) ==
    IF operatorRates[o] = ZERO THEN ToUint(87) ELSE operatorRates[o]

\* the duration of a pair in the claim: the stored one, 50 if none
ClaimDuration(u, o) ==
    IF serviceDuration[u][o] = ZERO THEN ToUint(50) ELSE serviceDuration[u][o]

\* the two records of the claim for a selected pair
ClaimNotified(u, o) ==
    [event |-> "ServiceNotified", user |-> u, operator |-> o,
     duration |-> ClaimDuration(u, o), bandwidth |-> ToUint(1000)]

ClaimPaid(u, o) ==
    [event |-> "PaymentProcessed", user |-> u, operator |-> o,
     cost |-> UMul(UMul(ClaimOperatorRate(o), ClaimDuration(u, o)), ToUint(1000))]

\* C12: processScheduledTransactions emits, for every pair marked as selected
\* and for no other, exactly one ServiceNotified(user, operator, duration, 1000)
\* immediately followed by one PaymentProcessed(user, operator, rate(operator)
\* * duration * 1000); the PaymentProcessed events are as many as the
\* registered operators with a selection
C12_SettlementRecords ==
    AfterSettlement =>
        LET logs == receipt.logs
        IN  /\ Len(logs) = 2 * Cardinality(MarkedPairs)
            /\ \A p \in MarkedPairs :
                 \E i \in 1..Len(logs) :
                    /\ i % 2 = 1
                    /\ logs[i] = ClaimNotified(p[1], p[2])
                    /\ logs[i + 1] = ClaimPaid(p[1], p[2])
            /\ \A i \in 1..Len(logs) : <<logs[i].user, logs[i].operator>> \in MarkedPairs
            /\ Cardinality({i \in 1..Len(logs) : logs[i].event = "PaymentProcessed"})
                 = Cardinality({op \in Registered(allOperators) :
                                   selectedUser[op] # ZeroAddress})

\* C12 witness: a settlement of two selected pairs, "o1" with the configured
\* rate 3 and "o2" with the default rate
C12_Witness ==
    /\ AfterSettlement
    /\ Len(receipt.logs) = 4
    /\ operatorRates["o1"] = ToUint(3)
    /\ operatorRates["o2"] = ZERO
    /\ schedulingMatrix["u1"]["o1"]
    /\ schedulingMatrix["u2"]["o2"]

\* C13: every ServiceNotified or PaymentProcessed event emitted by a public
\* operation of the settlement contract names a pair that schedulingMatrix
\* marks as selected when it is emitted
C13_EventsNameSelectedPairs ==
    receipt.fn \in {"processScheduledTransactions", "settleService"} =>
        \A i \in 1..Len(receipt.logs) :
            receipt.logs[i].event \in {"ServiceNotified", "PaymentProcessed"} =>
                schedulingMatrix[receipt.logs[i].user][receipt.logs[i].operator]

RECURSIVE ClaimRecordsFrom(_)
\* the records of the claim for the pairs k.. of the registered users and
\* operators, users in registration order and for each user the operators in
\* registration order
ClaimRecordsFrom(k) ==
    IF k > Len(allUsers) * Len(allOperators) THEN <<>>
    ELSE LET u == allUsers[((k - 1) \div Len(allOperators)) + 1]
             o == allOperators[((k - 1) % Len(allOperators)) + 1]
         IN  (IF schedulingMatrix[u][o]
              THEN <<ClaimNotified(u, o), ClaimPaid(u, o)>> ELSE <<>>)
             \o ClaimRecordsFrom(k + 1)

\* the records a settlement of the current state emits
ClaimRecords == ClaimRecordsFrom(1)

\* C14: every successful processScheduledTransactions emits the records of the
\* current selection, and these records are changed by no step other than an
\* updateScheduling or a setOperatorRate; so two settlements without such a
\* step between them emit the same sequence of records
C14_SettlementIdempotent ==
    [][/\ (receipt'.fn = "processScheduledTransactions" /\ receipt'.ok) =>
              receipt'.logs = ClaimRecords
       /\ receipt'.fn \notin {"updateScheduling", "setOperatorRate"} =>
              ClaimRecords' = ClaimRecords
    ]_vars

\* C14 witness: a settlement of one selected pair that follows a report or a
\* registration made after the last updateScheduling ("o2" has a reporting
\* user but no selection yet)
C14_Witness ==
    /\ AfterSettlement
    /\ Len(receipt.logs) = 2
    /\ round >= 1
    /\ "o2" \in Registered(allOperators)
    /\ "u2" \in Registered(allUsers)
    /\ latestOperatorUserRate["u2"]["o2"] # ZERO
    /\ selectedUser["o2"] = ZeroAddress

\* C15: processScheduledTransactions writes no storage: the selection, the
\* scheduling matrix, the allocated rates, the service durations, the
\* throughputs and remainders, the report ledger, the registration and the
\* operator rates are the same after the call; only the receipt carries events
C15_SettlementWritesNothing ==
    [][receipt'.fn = "processScheduledTransactions" =>
        /\ UNCHANGED <<selectedUser, schedulingMatrix, allocatedRate, serviceDuration>>
        /\ UNCHANGED <<throughput, throughputRemainder>>
        /\ UNCHANGED <<operatorUserRates, latestOperatorUserRate>>
        /\ UNCHANGED <<registry, nextOpId, nextUserId, allUsers, allOperators>>
        /\ UNCHANGED <<operatorRates, schedulingContract, settlementRegistration>>
    ]_vars

\* C15 witness: a settlement that emitted the four events of two selected
\* pairs, both operators charging the configured rate 3
C15_Witness ==
    /\ AfterSettlement
    /\ Len(receipt.logs) = 4
    /\ operatorRates["o1"] = ToUint(3)
    /\ operatorRates["o2"] = ToUint(3)
    /\ allocatedRate["u1"]["o1"] # ZERO
    /\ throughput["u2"] # ZERO

\* the positions of the executed transactions of one kind and round
ChainAt(kind, r) ==
    {i \in 1..Len(chain) : chain[i].kind = kind /\ chain[i].round = r}

\* the rounds with an executed transaction
ChainRounds == {chain[i].round : i \in 1..Len(chain)}

\* the executed reports of round r are one per pair of the driver
FullReports(r) ==
    /\ Cardinality(ChainAt("submitReport", r)) = Cardinality(DriverPairs)
    /\ \A p \in DriverPairs :
          \E i \in ChainAt("submitReport", r) :
              chain[i].user = p[1] /\ chain[i].operator = p[2]

Mined == {i \in 1..Len(chain) : chain[i].block <= blockNumber}

\* C17: no partial round is applied: the transactions of one mined block are
\* of one round, a mined block holds as many updateScheduling as
\* processScheduledTransactions, and each of them follows the full reports of
\* its round
C17_NoPartialRound ==
    /\ \A i, j \in Mined :
          chain[i].block = chain[j].block => chain[i].round = chain[j].round
    /\ \A b \in {chain[i].block : i \in Mined} :
          Cardinality({i \in Mined :
              chain[i].block = b /\ chain[i].kind = "updateScheduling"})
          = Cardinality({i \in Mined :
              chain[i].block = b /\ chain[i].kind = "processScheduledTransactions"})
    /\ \A i \in Mined :
          chain[i].kind # "submitReport" =>
              /\ FullReports(chain[i].round)
              /\ \A j \in ChainAt("submitReport", chain[i].round) : j < i

\* C18: a successful updateScheduling emits exactly one Scheduled event; its
\* operators are the registered operators in registration order and its
\* selectedUsers has the same length, the i-th being the selection stored for
\* the i-th operator at the end of the call (the zero address for none)
C18_ScheduledEvent ==
    AfterScheduling =>
        /\ Len(receipt.logs) = 1
        /\ receipt.logs[1].event = "Scheduled"
        /\ receipt.logs[1].operators = allOperators
        /\ Len(receipt.logs[1].selectedUsers) = Len(allOperators)
        /\ \A i \in 1..Len(allOperators) :
              receipt.logs[1].selectedUsers[i] = selectedUser[allOperators[i]]

\* C18 witness: in the second round the event lists "u2" for "o1" and none
\* for "o2", which has no reporting user
C18_Witness ==
    /\ AfterScheduling
    /\ round = 2
    /\ allOperators = <<"o1", "o2">>
    /\ receipt.logs[1].selectedUsers = <<"u2", ZeroAddress>>
    /\ serviceDuration["u1"]["o1"] # ZERO

\* C19: an updateScheduling with an empty registered operator list changes
\* no throughput, remainder, selection, scheduling matrix entry, allocated
\* rate or service duration
C19_NoOperatorsNoChange ==
    [][(receipt'.fn = "updateScheduling" /\ allOperators = <<>>) =>
        /\ UNCHANGED <<throughput, throughputRemainder>>
        /\ UNCHANGED <<selectedUser, schedulingMatrix, allocatedRate, serviceDuration>>
    ]_vars

\* C19 witness: the second updateScheduling with two registered users, a
\* report of "u1" and no operator
C19_Witness ==
    /\ AfterScheduling
    /\ round = 2
    /\ allOperators = <<>>
    /\ allUsers = <<"u1", "u2">>
    /\ latestOperatorUserRate["u1"]["o1"] # ZERO

\* C20: an updateScheduling with an empty registered user list succeeds and
\* leaves every registered operator without selection and no pair marked in
\* schedulingMatrix
C20_NoUsersNoSelection ==
    (receipt.fn = "updateScheduling" /\ allUsers = <<>>) =>
        /\ receipt.ok
        /\ \A op \in Registered(allOperators) : selectedUser[op] = ZeroAddress
        /\ \A u, o \in Address : ~schedulingMatrix[u][o]

\* C20 witness: the second updateScheduling with two registered operators,
\* reports of a user that is not registered, and no registered user
C20_Witness ==
    /\ receipt.fn = "updateScheduling"
    /\ receipt.ok
    /\ round = 2
    /\ allUsers = <<>>
    /\ allOperators = <<"o1", "o2">>
    /\ latestOperatorUserRate["u1"]["o1"] # ZERO
    /\ receipt.logs[1].selectedUsers = <<ZeroAddress, ZeroAddress>>

\* the storage of the four contracts
storageVars == <<registrationVars, reportingVars, schedulingVars, schedulingRefs,
                 settlementVars>>

\* C21: an operation invoked while a reference it requires is unset fails and
\* changes no storage: updateScheduling with the status reporting or the
\* registration reference unset, processScheduledTransactions with the
\* scheduling or the registration reference unset, whatever the user and
\* operator lists hold
C21_UnsetReferenceFails ==
    [][/\ (/\ receipt'.fn = "updateScheduling"
           /\ \/ statusReportingContract = ZeroAddress
              \/ registrationContract = ZeroAddress)
          => ~receipt'.ok /\ UNCHANGED storageVars
       /\ (/\ receipt'.fn = "processScheduledTransactions"
           /\ \/ schedulingContract = ZeroAddress
              \/ settlementRegistration = ZeroAddress)
          => ~receipt'.ok /\ UNCHANGED storageVars]_vars

\* C22: the cost of an operator uses the default rate 87 exactly while no rate
\* was configured for it; right after setOperatorRate(op, r) the cost of op is
\* r * duration * bandwidth, for every r
C22_ConfiguredRateBills ==
    /\ [](\A o \in Address :
            operatorRates[o] = ZERO =>
                calculateCost(o, ToUint(DefaultDuration), ToUint(DefaultBandwidth))
                    = UMul(UMul(ToUint(DefaultRate), ToUint(DefaultDuration)),
                           ToUint(DefaultBandwidth)))
    /\ [][\A o \in Address :
            (receipt'.fn = "setOperatorRate" /\ receipt'.args[1] = o) =>
                calculateCost(o, ToUint(DefaultDuration), ToUint(DefaultBandwidth))'
                    = UMul(UMul(receipt'.args[2], ToUint(DefaultDuration)),
                           ToUint(DefaultBandwidth))]_vars

\* C23: the billing rate of an operator is set at most once: once a rate is
\* stored for an operator (only setOperatorRate stores one), no later step
\* changes operatorRates of that operator
C23_RateSetOnce ==
    [][\A o \in Address :
        operatorRates[o] # ZERO => operatorRates'[o] = operatorRates[o]]_vars

\* A has no throughput, B has some, and the latest rate of A for op is at
\* least the positive latest rate of B
ColdStartCase(A, B, op) ==
    /\ throughput[A] = ZERO
    /\ UGt(throughput[B], ZERO)
    /\ UGt(latestOperatorUserRate[B][op], ZERO)
    /\ ULe(latestOperatorUserRate[B][op], latestOperatorUserRate[A][op])

\* C24: for every operator, a registered user A with throughput 0 has at
\* least the priority of a registered user B with throughput > 0 whenever
\* latestRate(A) >= latestRate(B) > 0, and no updateScheduling started in
\* such a state selects B for that operator
C24_ColdStartFavoured ==
    /\ [](\A op \in Registered(allOperators) :
          \A A, B \in Registered(allUsers) :
            ColdStartCase(A, B, op) =>
                ULe(ClaimPriority(latestOperatorUserRate[B][op], throughput[B]),
                    ClaimPriority(latestOperatorUserRate[A][op], throughput[A])))
    /\ [][SchedulingStep =>
            \A op \in Registered(allOperators) :
            \A A, B \in Registered(allUsers) :
                ColdStartCase(A, B, op) => selectedUser'[op] # B]_vars

\* C25: no report of at least eight bytes is estimated at rate 0: the
\* estimation of such a report succeeds with a rate of at least 1
C25_NoZeroRate ==
    (estimation.done /\ Len(csiInput) >= 8) =>
        estimation.ok /\ UGt(estimation.rate, ZERO)

\* the user an operator selects when it is considered alone: the earliest
\* registered user of maximal priority, none when every priority is 0
ClaimSoloSelection(op) ==
    LET users == Registered(allUsers)
        P(u)  == ClaimPriority(latestOperatorUserRate[u][op], throughput[u])
    IN  IF \A u \in users : P(u) = ZERO
        THEN ZeroAddress
        ELSE CHOOSE s \in users :
                \A u \in users :
                    /\ ULe(P(u), P(s))
                    /\ IndexOf(allUsers, u) < IndexOf(allUsers, s) => ULt(P(u), P(s))

\* the list in the opposite order
Reversed(list) == [i \in 1..Len(list) |-> list[Len(list) + 1 - i]]

\* C26: within one updateScheduling every operator selects the user it would
\* select alone, from the throughput held before the call, whatever the other
\* operators select in the same call (two operators may select the same
\* user); the selection is the same when the operator list is walked in the
\* opposite order; throughput is the one of before the call for every operator
C26_SelectionIndependent ==
    /\ [][SchedulingStep =>
            \A op \in Registered(allOperators) :
                selectedUser'[op] = ClaimSoloSelection(op)]_vars
    /\ [](~UpdateSchedulingReverts =>
            \A hash \in HashOutcomes :
                LET S == [selectedUser |-> selectedUser,
                          schedulingMatrix |-> schedulingMatrix,
                          allocatedRate |-> allocatedRate,
                          serviceDuration |-> serviceDuration]
                IN  OperatorLoop(S, getAllOperators, getAllUsers, 1, hash).selectedUser
                    = OperatorLoop(S, Reversed(getAllOperators), getAllUsers, 1,
                                   hash).selectedUser)

\* C26 witness: in one round "o1" and "o2" select the same user "u1"
\* although "u2" has a positive rate for "o2", and "u1" is credited with both
\* allocations
C26_Witness ==
    /\ AfterScheduling
    /\ selectedUser["o1"] = "u1"
    /\ selectedUser["o2"] = "u1"
    /\ UGt(latestOperatorUserRate["u2"]["o2"], ZERO)
    /\ throughput["u1"] = UMul(ToUint(400000), ToUint(10000))

\* C27: after every updateScheduling, for every registered operator op and
\* every user u, schedulingMatrix[u][op] holds exactly when u is the user
\* selected by op; allocatedRate[u][op] is 0 for every pair that is not
\* selected, and for the selected pair it is positive and equal to the latest
\* rate of the pair at the time of the call
C27_PreviousSelectionCleared ==
    [][SchedulingStep =>
        \A op \in Registered(allOperators) :
        \A u \in Address :
            /\ schedulingMatrix'[u][op]
                 <=> (u = selectedUser'[op] /\ selectedUser'[op] # ZeroAddress)
            /\ IF u = selectedUser'[op] /\ u # ZeroAddress
               THEN /\ UGt(allocatedRate'[u][op], ZERO)
                    /\ allocatedRate'[u][op] = latestOperatorUserRate[u][op]
               ELSE allocatedRate'[u][op] = ZERO
    ]_vars

\* C27 witness: "o1" selected "u2" in the first round and selects "u1" in the
\* second; the pair ("u2", "o1") is unmarked with allocated rate 0
C27_Witness ==
    /\ AfterScheduling
    /\ round = 2
    /\ selectedUser["o1"] = "u1"
    /\ schedulingMatrix["u1"]["o1"]
    /\ allocatedRate["u1"]["o1"] = ToUint(200000)
    /\ UGt(throughput["u2"], ZERO)
    /\ ~schedulingMatrix["u2"]["o1"]
    /\ allocatedRate["u2"]["o1"] = ZERO

\* C28: after every updateScheduling, getServiceDuration(u, op) is nonzero
\* only for the pair currently selected by op: a pair selected in an earlier
\* round and not selected now has service duration 0
C28_DurationOfCurrentRoundOnly ==
    [][SchedulingStep =>
        \A op \in Registered(allOperators) :
        \A u \in Address :
            getServiceDuration(u, op)' # ZERO => u = selectedUser'[op]
    ]_vars

\* d is a duration of the range [35, 50]
InDurationRange(d) == ULe(ToUint(35), d) /\ ULe(d, ToUint(50))

\* C29: every pair selected by updateScheduling has a service duration in
\* [35, 50]; every ServiceNotified event of processScheduledTransactions
\* carries a duration in [35, 50] and bandwidth 1000, and every cost it
\* records lies between rate * 35 * 1000 and rate * 50 * 1000; the settlement
\* contract, reading the scheduling contract it is configured with, uses the
\* default duration 50 only for a stored duration of 0
C29_DurationRange ==
    /\ \A op \in Registered(allOperators) :
       \A u \in Address :
            schedulingMatrix[u][op] => InDurationRange(getServiceDuration(u, op))
    /\ AfterSettlement =>
         \A i \in 1..Len(receipt.logs) :
            LET log == receipt.logs[i]
            IN  /\ log.event = "ServiceNotified" =>
                     /\ InDurationRange(log.duration)
                     /\ log.bandwidth = ToUint(1000)
                /\ log.event = "PaymentProcessed" =>
                     /\ ULe(UMul(UMul(ClaimOperatorRate(log.operator), ToUint(35)),
                                 ToUint(1000)), log.cost)
                     /\ ULe(log.cost,
                            UMul(UMul(ClaimOperatorRate(log.operator), ToUint(50)),
                                 ToUint(1000)))
    /\ schedulingContract # ZeroAddress =>
         \A u, o \in Address :
            getServiceParameters(u, o).duration =
                IF serviceDuration[u][o] = ZERO THEN ToUint(50)
                ELSE serviceDuration[u][o]

\* C29 witness: a settlement notifies ("u1", "o1") with the duration 35 drawn
\* by updateScheduling and bills 3 * 35 * 1000 at the configured rate 3
C29_Witness ==
    /\ AfterSettlement
    /\ serviceDuration["u1"]["o1"] = ToUint(35)
    /\ operatorRates["o1"] = ToUint(3)
    /\ \E i \in 1..Len(receipt.logs) :
          /\ receipt.logs[i].event = "ServiceNotified"
          /\ receipt.logs[i].user = "u1"
          /\ receipt.logs[i].operator = "o1"
          /\ receipt.logs[i].duration = ToUint(35)
          /\ receipt.logs[i + 1].event = "PaymentProcessed"
          /\ receipt.logs[i + 1].cost = ToUint(105000)

\* the user selected for op, from the user list, the latest rates and the
\* throughputs alone
ClaimSelect(users, rates, tp, op) ==
    LET P(u) == ClaimPriority(rates[u][op], tp[u])
    IN  IF \A u \in Registered(users) : P(u) = ZERO
        THEN ZeroAddress
        ELSE CHOOSE s \in Registered(users) :
                \A u \in Registered(users) :
                    /\ ULe(P(u), P(s))
                    /\ IndexOf(users, u) < IndexOf(users, s) => ULt(P(u), P(s))

\* the outcome of a round as a function of the lists, the latest rates and
\* (throughput, remainder) alone
ClaimOutcome(users, operators, rates, tp, rem) ==
    LET sel == [op \in Registered(operators) |-> ClaimSelect(users, rates, tp, op)]
        by(u) == {op \in Registered(operators) : sel[op] = u}
        numerator(u) ==
            UAdd(UAdd(UMul(ToUint(9999), tp[u]),
                      UMul(USum([op \in by(u) |-> rates[u][op]], by(u)),
                           UPow(ToUint(10), 8))),
                 rem[u])
    IN  [selected   |-> sel,
         allocated  |-> [u \in Registered(users) |->
                            [op \in Registered(operators) |->
                                IF sel[op] = u THEN rates[u][op] ELSE ZERO]],
         throughput |-> [u \in Registered(users) |->
                            UDiv(numerator(u), ToUint(10000))],
         remainder  |-> [u \in Registered(users) |->
                            UMod(numerator(u), ToUint(10000))]]

\* C30: the selected user of every operator, the allocated rates and the new
\* (throughput, remainder) of every user after updateScheduling are a function
\* of the registered user and operator lists, the latest rates and the
\* (throughput, remainder) of before the call: two calls that agree on these
\* agree on the outcome, whatever the block timestamp and the older entries of
\* the rate histories
C30_SchedulingDeterministic ==
    [][SchedulingStep =>
        \A out \in {ClaimOutcome(allUsers, allOperators, latestOperatorUserRate,
                                 throughput, throughputRemainder)} :
            /\ \A op \in Registered(allOperators) :
                 selectedUser'[op] = out.selected[op]
            /\ \A u \in Registered(allUsers) :
                 /\ throughput'[u] = out.throughput[u]
                 /\ throughputRemainder'[u] = out.remainder[u]
                 /\ \A op \in Registered(allOperators) :
                      allocatedRate'[u][op] = out.allocated[u][op]
    ]_vars

\* C30 witness: a round that ran with the history 200000, 1, 200000 for
\* ("u1", "o1") and the timestamp that gives duration 50 selected "u1" at rate
\* 200000, as a round with the single report 200000 does
C30_Witness ==
    /\ AfterScheduling
    /\ round = 1
    /\ operatorUserRates["u1"]["o1"] = <<ToUint(200000), ToUint(1), ToUint(200000)>>
    /\ selectedUser["o1"] = "u1"
    /\ allocatedRate["u1"]["o1"] = ToUint(200000)
    /\ serviceDuration["u1"]["o1"] = ToUint(50)
    /\ throughput["u1"] = UMul(ToUint(200000), ToUint(10000))

\* C31: a successful submitReport(user, operator, csi) logs exactly one
\* ReportSubmitted event, for its own pair, whose rate is the value that
\* getLatestRate(user, operator) returns right after the call; a failed one
\* logs nothing
C31_EventCarriesLatestRate ==
    [][/\ \A u, o \in Address :
            ReportStepFor(u, o) =>
                /\ Len(receipt'.logs) = 1
                /\ receipt'.logs[1].event = "ReportSubmitted"
                /\ receipt'.logs[1].user = u
                /\ receipt'.logs[1].operator = o
                /\ receipt'.logs[1].rate = LedgerLatestRate(u, o)'
       /\ (receipt'.fn = "submitReport" /\ ~receipt'.ok) => receipt'.logs = <<>>
    ]_vars

\* C31 witness: the second report of ("u1", "o1") logged the rate 13 after a
\* first report of rate 1, and 13 is the latest rate of the pair
C31_Witness ==
    /\ receipt.fn = "submitReport"
    /\ receipt.ok
    /\ receipt.args[1] = "u1"
    /\ receipt.args[2] = "o1"
    /\ operatorUserRates["u1"]["o1"] = <<ToUint(1), ToUint(13)>>
    /\ receipt.logs[1].rate = ToUint(13)
    /\ LedgerLatestRate("u1", "o1") = ToUint(13)

\* the list holds no address twice
NoDuplicate(list) == \A i, j \in 1..Len(list) : list[i] = list[j] => i = j

\* C32: the user list and the operator list hold no duplicate and share no
\* address; a registered address keeps its record; a register call for a
\* registered address, or with a proof shorter than 5 bytes (user) or 10 bytes
\* (operator), fails and leaves the registry and both lists unchanged
C32_RegistrationUnique ==
    /\ [](/\ NoDuplicate(allUsers)
          /\ NoDuplicate(allOperators)
          /\ Registered(allUsers) \cap Registered(allOperators) = {})
    /\ [][\A a \in Address : isRegistered(a) => registry'[a] = registry[a]]_vars
    /\ [][\A a \in Address :
            (/\ receipt'.fn = "register"
             /\ receipt'.args[1] = a
             /\ \/ isRegistered(a)
                \/ Len(receipt'.args[2]) < (IF receipt'.args[3] THEN 10 ELSE 5))
            => ~receipt'.ok /\ UNCHANGED registrationVars]_vars

\* C32 witness: the registered user "u1" was refused as an operator although
\* the proof had ten bytes, and is still a user only
C32_Witness ==
    /\ receipt.fn = "register"
    /\ ~receipt.ok
    /\ receipt.args[1] = "u1"
    /\ receipt.args[3]
    /\ Len(receipt.args[2]) = 10
    /\ allUsers = <<"u2", "u1">>
    /\ allOperators = <<"o1">>
    /\ ~registry["u1"].isOperator

\* list is the beginning of longer
PrefixOf(list, longer) ==
    /\ Len(list) <= Len(longer)
    /\ SubSeq(longer, 1, Len(list)) = list

\* C33: getAllUsers and getAllOperators are in registration order: no step
\* removes or reorders an entry, a successful register appends its address at
\* the end of the list of its role; the k-th registered user (operator) has id
\* k; isRegistered(a) holds exactly for the addresses of the two lists
C33_RegistrationOrder ==
    /\ [](/\ \A k \in 1..Len(getAllUsers) :
               registry[getAllUsers[k]] = [id |-> k, isOperator |-> FALSE]
          /\ \A k \in 1..Len(getAllOperators) :
               registry[getAllOperators[k]] = [id |-> k, isOperator |-> TRUE]
          /\ \A a \in Address :
               isRegistered(a) <=>
                   a \in Registered(getAllUsers) \cup Registered(getAllOperators))
    /\ [][/\ PrefixOf(getAllUsers, getAllUsers')
          /\ PrefixOf(getAllOperators, getAllOperators')
          /\ (receipt'.fn = "register" /\ receipt'.ok) =>
               IF receipt'.args[3]
               THEN /\ getAllOperators' = Append(getAllOperators, receipt'.args[1])
                    /\ getAllUsers' = getAllUsers
               ELSE /\ getAllUsers' = Append(getAllUsers, receipt'.args[1])
                    /\ getAllOperators' = getAllOperators
       ]_vars

\* C33 witness: "u2", "o1" and "u1" registered as users in this order and have
\* the ids 1, 2 and 3; "o2" is not registered
C33_Witness ==
    /\ getAllUsers = <<"u2", "o1", "u1">>
    /\ getAllOperators = <<>>
    /\ registry["o1"].id = 2
    /\ registry["u1"].id = 3
    /\ ~isRegistered("o2")
    /\ receipt.ok

\* C34: in every reachable state throughputRemainder[user] is below ALPHA for
\* every user; it is 0 for a user that no updateScheduling has processed: it is
\* 0 before the first round and for an unregistered address, and only an
\* updateScheduling that finds the user registered changes it
C34_RemainderBelowAlpha ==
    /\ [](\A u \in Address :
            /\ ULt(throughputRemainder[u], ToUint(10000))
            /\ (round = 0 \/ u \notin Registered(allUsers)) =>
                   throughputRemainder[u] = ZERO)
    /\ [][\A u \in Address :
            throughputRemainder'[u] # throughputRemainder[u] =>
                SchedulingStep /\ u \in Registered(allUsers)]_vars

\* C34 witness: a round left "u1" with a remainder between 1 and ALPHA - 1 and
\* a throughput that is not a multiple of ALPHA, while "u2" still has none
C34_Witness ==
    /\ AfterScheduling
    /\ UGt(throughputRemainder["u1"], ZERO)
    /\ ULt(throughputRemainder["u1"], ToUint(10000))
    /\ UMod(throughput["u1"], ToUint(10000)) # ZERO
    /\ throughputRemainder["u2"] = ZERO

\* the greater of two numbers
UMax(a, b) == IF ULt(a, b) THEN b ELSE a

\* C35: the stored average never overshoots the largest allocation: after an
\* updateScheduling the throughput of a user is at most the greater of its
\* throughput before the call and the total rate allocated to it in the call
\* times PRECISION; hence, allocations of at most M in every round so far keep
\* throughput[user] <= M * PRECISION (400001 is the largest total of a round
\* here)
C35_ThroughputBounded ==
    /\ [][SchedulingStep =>
            \A u \in Registered(allUsers) :
                LET by    == {op \in Registered(allOperators) : selectedUser'[op] = u}
                    total == USum([op \in by |-> allocatedRate'[u][op]], by)
                IN  ULe(throughput'[u],
                        UMax(throughput[u], UMul(total, ToUint(100000000))))]_vars
    /\ [](\A u \in Address :
            ULe(throughput[u], UMul(ToUint(400001), ToUint(100000000))))

\* C35 witness: "u2" was allocated 200001 in the first round and nothing in
\* the second, where "u1" was allocated 200000: the throughput of "u2" fell
\* from 2000010000 to 1999809999, the one of "u1" rose to 2000000000
C35_Witness ==
    /\ AfterScheduling
    /\ round = 2
    /\ selectedUser["o1"] = "u1"
    /\ allocatedRate["u1"]["o1"] = ToUint(200000)
    /\ throughput["u1"] = UMul(ToUint(200000), ToUint(10000))
    /\ throughput["u2"] = UMul(ToUint(200001), ToUint(9999))

\* C36: in a round in which no operator selects a user its throughput does not
\* increase, and throughput * ALPHA + remainder falls by the throughput, so a
\* user with throughput 0 stays at 0; a user with throughput > 0 that is never
\* selected again reaches throughput exactly 0 after finitely many rounds
C36_DecayWithoutAllocation ==
    /\ [][SchedulingStep =>
            \A u \in Registered(allUsers) :
                (\A op \in Registered(allOperators) : selectedUser'[op] # u) =>
                    /\ ULe(throughput'[u], throughput[u])
                    /\ UAdd(UAdd(UMul(throughput'[u], ToUint(10000)),
                                 throughputRemainder'[u]),
                            throughput[u])
                         = UAdd(UMul(throughput[u], ToUint(10000)),
                                throughputRemainder[u])
                    /\ throughput[u] = ZERO => throughput'[u] = ZERO]_vars
    /\ \A u \in UserPool :
          (UGt(throughput[u], ZERO) /\ ColdIdle) ~> (throughput[u] = ZERO)

\* C36 witness: "u1", served once at rate 1 and never again, is back at
\* throughput 0 after 97872 rounds, with the remainder 9999
C36_Witness ==
    /\ AfterScheduling
    /\ round = 97872
    /\ operatorUserRates["u1"]["o1"] = <<ToUint(1), ZERO>>
    /\ throughput["u1"] = ZERO
    /\ throughputRemainder["u1"] = ToUint(9999)

\* C37: once a failure that stops the run has been recorded (progress status
\* 'error', the loop left by break), no later step of the run writes the
\* status 'completed' or prints that all rounds of scheduling completed
C37_FailureStaysReported ==
    [][(drvPc = "stopped" /\ progressMonitor.status = "error")
          => (progressMonitor'.status = "error" /\ ~completedLog')]_vars

====
